---- MODULE Spec2Model ----
(***************************************************************************)
(* The stock-research application: the Express data proxy of               *)
(* server/routes.ts (both revisions: the key as `apiKey` query parameter,  *)
(* and the key in request headers through polygonFetch) and the browser    *)
(* page client/src/pages/StockResearchApp.tsx.                             *)
(*                                                                         *)
(* Strings are sequences: a character of a value that is interpolated      *)
(* into a URL is one element, a literal piece of a template string is one  *)
(* element holding the whole piece.                                        *)
(***************************************************************************)
EXTENDS Integers, Sequences, FiniteSets, TLC

\* Total number of requests that arrive at the proxy in one run.
MaxReq == 2

\* ------------------------------------------------------------------------
\* JavaScript values
\* ------------------------------------------------------------------------

\* The value `undefined` (an absent query parameter, an unset environment
\* variable).  No string equals it: every string element is one character or
\* one literal piece, never the word below.
Undefined == <<"undefined">>

\* !v for v a string or undefined.
Falsy(v) == v = Undefined \/ v = <<>>

\* a || b
OrElse(a, b) == IF Falsy(a) THEN b ELSE a

\* A destructuring default, `{ x = d } = obj`: only undefined takes it.
DefaultTo(a, d) == IF a = Undefined THEN d ELSE a

\* Characters encodeURIComponent leaves as they are (the ones in use here).
Unreserved == {"A", "B", "a", "b", "q", "w", "k", "1", "2", "7", "-", "."}

PercentCode(ch) ==
    CASE ch = " " -> <<"%20">>
      [] ch = "/" -> <<"%2F">>
      [] ch = "&" -> <<"%26">>
      [] OTHER -> <<"%3F">>

RECURSIVE encodeURIComponent(_)
encodeURIComponent(s) ==
    IF s = <<>> THEN <<>>
    ELSE (IF Head(s) \in Unreserved THEN <<Head(s)>> ELSE PercentCode(Head(s)))
         \o encodeURIComponent(Tail(s))

\* req.query[name]; an absent parameter is a field holding undefined.
Param(query, name) == query[name]

\* ------------------------------------------------------------------------
\* Inputs
\* ------------------------------------------------------------------------

\* process.env.POLYGON_API_KEY
KeyValues == {Undefined, <<>>, <<"k", "1">>, <<"k", "2">>}

\* The two revisions of routes.ts.
Variants == {"query", "header"}

Ops == {"search", "details", "income", "aggregates", "previous"}

Tickers == {<<"A", "/", "B">>}

\* What a client may send for each query parameter: nothing, or a string.
QValues == {Undefined, <<>>, <<" ">>, <<"a", "b">>}
TimeframeValues == {Undefined, <<>>, <<"q">>}
LimitValues == {Undefined, <<>>, <<"7">>}
DateValues == {Undefined, <<>>, <<"2", "-", "1">>}
TimespanValues == {Undefined, <<>>, <<"w">>}
MultiplierValues == {Undefined, <<>>, <<"2">>}

\* req.query of a request that carries no query string.
NoQuery ==
    [q |-> Undefined, timeframe |-> Undefined, limit |-> Undefined, from |-> Undefined,
     to |-> Undefined, timespan |-> Undefined, multiplier |-> Undefined]

SearchQueries == {[NoQuery EXCEPT !.q = v] : v \in QValues}

IncomeQueries ==
    {[NoQuery EXCEPT !.timeframe = tf, !.limit = l] :
        tf \in TimeframeValues, l \in LimitValues}

AggregatesQueries ==
    {[NoQuery EXCEPT !.from = f, !.to = t, !.timespan = ts, !.multiplier = m] :
        f \in DateValues, t \in DateValues, ts \in TimespanValues, m \in MultiplierValues}

\* ------------------------------------------------------------------------
\* Upstream replies
\* ------------------------------------------------------------------------

StatusTexts == {<<"Not Found">>, <<"Too Many Requests">>}

JsonCompact == <<"{", "\"results\"", ":", "[", "]", "}">>
JsonPretty == <<"{", " ", "\"status\"", ":", " ", "\"OK\"", " ", "}">>
HtmlPage == <<"<", "html", ">">>
OkBodies == {JsonCompact, JsonPretty, HtmlPage}

ErrBodyA == <<"{", "\"error\"", ":", "\"unknown key\"", "}">>
ErrBodyB == <<"{", "\"error\"", ":", "\"slow down\"", "}">>
ErrBodies == {ErrBodyA, ErrBodyB}

\* What arrived of a body whose stream broke.
PartialBody == <<"{">>

\* ------------------------------------------------------------------------
\* State
\* ------------------------------------------------------------------------

VARIABLES
    apiKey,      \* POLYGON_API_KEY, read when the module is loaded
    variant,     \* which revision of routes.ts runs
    startup,     \* "boot", then "serving" or "failed" (registerRoutes threw)
    routes,      \* the paths registered with app.get
    httpServer,  \* whether createServer(app) was called
    conn,        \* conn[c]: the request being handled on connection c
    nArrived,    \* requests that arrived
    nValidated,  \* requests that passed parameter validation
    nUpstream,   \* calls of fetch
    searchQuery,     \* useState(""): the text of the search input
    debouncedQuery,  \* useState(""): the text the search query is keyed by
    selectedTicker,  \* useState(null): the ticker whose page is shown
    timers,          \* the pending setTimeouts of the debounce effect
    stableFor,       \* how long searchQuery has kept its value, up to the delay
    superseded,      \* whether clearTimeout has cancelled a pending timer
    searchCache,     \* the query cache under ["stocks", "search", q]
    cache,           \* the query cache under ["stocks", ticker, kind]
    inflight,        \* the fetches the page has started that have not settled
    nSelected,       \* selections of a stock so far
    subject,         \* the derived-metrics function under study and its argument
    clockYear,       \* new Date().getFullYear()
    returned         \* what the calls of that function made so far returned

serverVars == <<apiKey, variant, startup, routes, httpServer, conn,
                nArrived, nValidated, nUpstream>>
clientVars == <<searchQuery, debouncedQuery, selectedTicker, timers, stableFor, superseded,
                searchCache, cache, inflight, nSelected>>
metricVars == <<subject, clockYear, returned>>
vars == <<serverVars, clientVars, metricVars>>

\* The year the clock shows at first.
FirstYear == 2026

\* No derived-metrics function is under study.
NoFunction == [fn |-> "none", arg |-> <<>>]

MetricsAtRest ==
    /\ subject = NoFunction
    /\ clockYear = FirstYear
    /\ returned = <<>>

\* Two client connections are open to the proxy at a time.
Conns == {"c1", "c2"}

NoReq == [query |-> NoQuery, op |-> "none", ticker |-> <<>>]
NoCall == [made |-> FALSE, url |-> <<>>, headers |-> <<>>]
NoReply == [settled |-> "pending", ok |-> FALSE, statusText |-> <<>>,
            body |-> <<>>, readable |-> FALSE]
NoResp == [status |-> 0, kind |-> "none", content |-> <<>>]
Idle == [pc |-> "idle", req |-> NoReq, call |-> NoCall, calls |-> 0,
         reply |-> NoReply, resp |-> NoResp]

\* ------------------------------------------------------------------------
\* registerRoutes
\* ------------------------------------------------------------------------

POLYGON_BASE_URL == <<"https://api.polygon.io">>

\* As KeyMissing, testing for undefined alone: an empty key passes.
KeyMissingOnlyUndefined(key) == key = Undefined

\* if (!POLYGON_API_KEY) throw ...
KeyMissing(key) == Falsy(key)

RegisterRoutes ==
    /\ startup = "boot"
    /\ IF KeyMissing(apiKey)
       THEN /\ startup' = "failed"
            /\ UNCHANGED <<routes, httpServer>>
       ELSE /\ startup' = "serving"
            /\ routes' = Ops
            /\ httpServer' = TRUE
    /\ UNCHANGED <<apiKey, variant, conn, nArrived, nValidated, nUpstream>>
    /\ UNCHANGED clientVars
    /\ UNCHANGED metricVars

\* authHeaders of the header revision; the query revision passes no headers.
AuthHeaders(v, key) ==
    IF v = "header"
    THEN <<<<"Authorization: Bearer ">> \o key, <<"X-Polygon-API-Key: ">> \o key>>
    ELSE <<>>

\* The query revision ends every URL with the key; `sep` is "?apiKey=" or "&apiKey=".
WithKey(v, key, url, sep) == IF v = "query" THEN url \o <<sep>> \o key ELSE url

\* res.status(400).json({ error }) and res.status(500).json({ error: error.message })
ErrorResponse(status, message) == [status |-> status, kind |-> "error", content |-> message]

\* ------------------------------------------------------------------------
\* The five handlers, up to their call of fetch
\* ------------------------------------------------------------------------

\* As SearchRejected, testing for an absent q alone: an empty q passes.
SearchRejectedOnlyAbsent(query) == Param(query, "q") = Undefined

\* if (!query) return res.status(400)...
SearchRejected(query) == Falsy(Param(query, "q"))

SearchUrl(v, key, query) ==
    WithKey(v, key,
            POLYGON_BASE_URL \o <<"/v3/reference/tickers?search=">>
                \o encodeURIComponent(Param(query, "q"))
                \o <<"&active=true&limit=10">>,
            "&apiKey=")

DetailsUrl(v, key, ticker) ==
    WithKey(v, key,
            POLYGON_BASE_URL \o <<"/v3/reference/tickers/">> \o encodeURIComponent(ticker),
            "?apiKey=")

\* As IncomeTimeframe, never reading the client's parameter.
IncomeTimeframeFixed(query) == <<"a", "n", "n", "u", "a", "l">>

\* const timeframe = req.query.timeframe || "annual"
IncomeTimeframe(query) == OrElse(Param(query, "timeframe"), <<"a", "n", "n", "u", "a", "l">>)

\* const limit = req.query.limit || 5
IncomeLimit(query) == OrElse(Param(query, "limit"), <<"5">>)

IncomeUrl(v, key, ticker, query) ==
    WithKey(v, key,
            POLYGON_BASE_URL \o <<"/vX/reference/financials?ticker=">>
                \o encodeURIComponent(ticker)
                \o <<"&timeframe=">> \o IncomeTimeframe(query)
                \o <<"&limit=">> \o IncomeLimit(query),
            "&apiKey=")

\* const { from, to, timespan = "day", multiplier = 1 } = req.query
AggregatesTimespan(query) == DefaultTo(Param(query, "timespan"), <<"d", "a", "y">>)
AggregatesMultiplier(query) == DefaultTo(Param(query, "multiplier"), <<"1">>)

\* As AggregatesRejected, with && for ||: one bound alone passes.
AggregatesRejectedBothMissing(query) ==
    Falsy(Param(query, "from")) /\ Falsy(Param(query, "to"))

\* if (!from || !to) return res.status(400)...
AggregatesRejected(query) == Falsy(Param(query, "from")) \/ Falsy(Param(query, "to"))

AggregatesUrl(v, key, ticker, query) ==
    WithKey(v, key,
            POLYGON_BASE_URL \o <<"/v2/aggs/ticker/">> \o encodeURIComponent(ticker)
                \o <<"/range/">> \o AggregatesMultiplier(query)
                \o <<"/">> \o AggregatesTimespan(query)
                \o <<"/">> \o Param(query, "from")
                \o <<"/">> \o Param(query, "to")
                \o <<"?adjusted=true&sort=asc">>,
            "&apiKey=")

PreviousUrl(v, key, ticker) ==
    WithKey(v, key,
            POLYGON_BASE_URL \o <<"/v2/aggs/ticker/">> \o encodeURIComponent(ticker)
                \o <<"/prev?adjusted=true">>,
            "&apiKey=")

\* Whether the handler of req.op answers 400 without calling fetch.
Rejected(req) ==
    CASE req.op = "search" -> SearchRejected(req.query)
      [] req.op = "aggregates" -> AggregatesRejected(req.query)
      [] OTHER -> FALSE

RejectionMessage(req) ==
    IF req.op = "search"
    THEN <<"Query parameter 'q' is required">>
    ELSE <<"from and to date parameters are required (YYYY-MM-DD)">>

UpstreamUrl(v, key, req) ==
    CASE req.op = "search" -> SearchUrl(v, key, req.query)
      [] req.op = "details" -> DetailsUrl(v, key, req.ticker)
      [] req.op = "income" -> IncomeUrl(v, key, req.ticker, req.query)
      [] req.op = "aggregates" -> AggregatesUrl(v, key, req.ticker, req.query)
      [] OTHER -> PreviousUrl(v, key, req.ticker)

\* fetch(url) of the query revision, fetch(url, { headers: authHeaders }) of the other.
FetchCall(v, key, req) ==
    [made |-> TRUE, url |-> UpstreamUrl(v, key, req), headers |-> AuthHeaders(v, key)]

\* The event loop runs one callback at a time, and res.json() ends the response
\* within the callback that calls it: when the next callback runs, every answer
\* given so far has been written and its connection released (Close).
Turn == \A c \in Conns : conn[c].pc # "sent"

\* A request arrives on connection c and its handler runs to its first await,
\* or to its 400.
Handle(c, req) ==
    /\ Turn
    /\ startup = "serving"
    /\ httpServer
    /\ req.op \in routes
    /\ conn[c].pc = "idle"
    /\ nArrived < MaxReq
    /\ nArrived' = nArrived + 1
    /\ IF Rejected(req)
       THEN /\ conn' = [conn EXCEPT ![c] =
                   [Idle EXCEPT !.pc = "sent", !.req = req,
                                !.resp = ErrorResponse(400, RejectionMessage(req))]]
            /\ UNCHANGED <<nValidated, nUpstream>>
       ELSE /\ conn' = [conn EXCEPT ![c] =
                   [Idle EXCEPT !.pc = "awaitFetch", !.req = req,
                                !.call = FetchCall(variant, apiKey, req), !.calls = 1]]
            /\ nValidated' = nValidated + 1
            /\ nUpstream' = nUpstream + 1
    /\ UNCHANGED <<apiKey, variant, startup, routes, httpServer>>
    /\ UNCHANGED clientVars
    /\ UNCHANGED metricVars

HandleSearch(c) ==
    \E q \in SearchQueries : Handle(c, [query |-> q, op |-> "search", ticker |-> <<>>])

HandleDetails(c) ==
    \E t \in Tickers : Handle(c, [query |-> NoQuery, op |-> "details", ticker |-> t])

HandleIncome(c) ==
    \E t \in Tickers, q \in IncomeQueries :
        Handle(c, [query |-> q, op |-> "income", ticker |-> t])

HandleAggregates(c) ==
    \E t \in Tickers, q \in AggregatesQueries :
        Handle(c, [query |-> q, op |-> "aggregates", ticker |-> t])

HandlePrevious(c) ==
    \E t \in Tickers : Handle(c, [query |-> NoQuery, op |-> "previous", ticker |-> t])

\* ------------------------------------------------------------------------
\* response.json(): JSON.parse of the body, and res.json's JSON.stringify
\* ------------------------------------------------------------------------

IsSpace(tok) == tok = " "
NotSpace(tok) == ~IsSpace(tok)

Closer(open) == IF open = "{" THEN "}" ELSE "]"

\* Whether the brackets of `toks` nest properly, `stack` being the open ones.
RECURSIVE Nested(_, _)
Nested(toks, stack) ==
    IF toks = <<>> THEN stack = <<>>
    ELSE LET t == Head(toks) IN
         CASE t \in {"{", "["} -> Nested(Tail(toks), <<t>> \o stack)
           [] t \in {"}", "]"} ->
                /\ stack # <<>>
                /\ Closer(Head(stack)) = t
                /\ Nested(Tail(toks), Tail(stack))
           [] OTHER -> Nested(Tail(toks), stack)

\* JSON.parse: the value (its tokens, white space gone), or the SyntaxError.
JSONParse(text) ==
    LET toks == SelectSeq(text, NotSpace) IN
    IF toks # <<>> /\ Head(toks) \in {"{", "["} /\ Nested(toks, <<>>)
    THEN [ok |-> TRUE, value |-> toks, message |-> <<>>]
    ELSE [ok |-> FALSE, value |-> <<>>,
          message |-> IF toks # <<>> /\ Head(toks) \notin {"{", "["}
                      THEN <<"Unexpected token ", Head(toks)>>
                      ELSE <<"Unexpected end of JSON input">>]

\* JSON.stringify of a parsed value: its tokens, with no white space.
JSONStringify(value) == value

\* ------------------------------------------------------------------------
\* The handlers from their call of fetch on
\* ------------------------------------------------------------------------

\* As UpstreamErrorMessage, with the body polygonFetch read appended.
UpstreamErrorWithBody(response) ==
    <<"Polygon API error: ">> \o response.statusText \o response.body

\* throw new Error(`Polygon API error: ${response.statusText}`)
UpstreamErrorMessage(response) == <<"Polygon API error: ">> \o response.statusText

\* As FetchFailedMessage, naming the URL that was requested.
FetchFailedNamingUrl(call) == <<"request to ">> \o call.url \o <<" failed">>

\* The message of the TypeError fetch rejects with.
FetchFailedMessage(call) == <<"fetch failed">>

\* The message of the TypeError a broken body stream rejects text() or json() with.
BodyStreamMessage == <<"terminated">>

\* catch (error) { res.status(500).json({ error: error.message }) }
Catch(message) == ErrorResponse(500, message)

\* As SuccessResponse, wrapping the payload in an envelope.
SuccessResponseWrapped(data) ==
    [status |-> 200, kind |-> "data",
     content |-> <<"{", "\"data\"", ":">> \o JSONStringify(data) \o <<"}">>]

\* res.json(data)
SuccessResponse(data) == [status |-> 200, kind |-> "data", content |-> JSONStringify(data)]

\* The bodies a non-success reply may carry, and whether they arrive whole.
NotOkBodies == {<<b, TRUE>> : b \in ErrBodies} \cup {<<PartialBody, FALSE>>}
OkBodyOutcomes == {<<b, TRUE>> : b \in OkBodies} \cup {<<PartialBody, FALSE>>}

\* As Sent, with the handler not ending at its res.json(...).
SentAndOn(c, reply, resp) ==
    conn' = [conn EXCEPT ![c].reply = reply, ![c].resp = resp]

\* res.json(...) or res.status(...).json(...), the last statement the handler runs
Sent(c, reply, resp) ==
    conn' = [conn EXCEPT ![c].pc = "sent", ![c].reply = reply, ![c].resp = resp]

serverFrame ==
    UNCHANGED <<apiKey, variant, startup, routes, httpServer, nArrived, nValidated>>

\* As FetchRejects, calling fetch a second time before giving up.
FetchRejectsRetry(c) ==
    /\ Turn
    /\ conn[c].pc = "awaitFetch"
    /\ IF conn[c].calls < 2
       THEN /\ conn' = [conn EXCEPT ![c].calls = @ + 1]
            /\ nUpstream' = nUpstream + 1
       ELSE /\ Sent(c, [NoReply EXCEPT !.settled = "rejected"],
                    Catch(FetchFailedMessage(conn[c].call)))
            /\ UNCHANGED nUpstream
    /\ serverFrame
    /\ UNCHANGED clientVars
    /\ UNCHANGED metricVars

\* fetch rejects: no reply came.
FetchRejects(c) ==
    /\ Turn
    /\ conn[c].pc = "awaitFetch"
    /\ Sent(c, [NoReply EXCEPT !.settled = "rejected"],
            Catch(FetchFailedMessage(conn[c].call)))
    /\ UNCHANGED nUpstream
    /\ serverFrame
    /\ UNCHANGED clientVars
    /\ UNCHANGED metricVars

\* fetch resolves with a success status; the handler goes on to response.json().
FetchResolvesOk(c) ==
    /\ Turn
    /\ conn[c].pc = "awaitFetch"
    /\ conn' = [conn EXCEPT ![c].pc = "awaitJson",
                            ![c].reply = [NoReply EXCEPT !.settled = "responded",
                                                         !.ok = TRUE,
                                                         !.statusText = <<"OK">>]]
    /\ UNCHANGED nUpstream
    /\ serverFrame
    /\ UNCHANGED clientVars
    /\ UNCHANGED metricVars

\* fetch resolves with a non-success status.  The query revision throws at
\* once and never reads the body; polygonFetch first awaits response.text().
FetchResolvesNotOk(c) ==
    /\ Turn
    /\ conn[c].pc = "awaitFetch"
    /\ \E st \in StatusTexts :
         LET head == [NoReply EXCEPT !.settled = "responded", !.statusText = st] IN
         IF variant = "query"
         THEN \E b \in NotOkBodies :
                Sent(c, [head EXCEPT !.body = b[1], !.readable = b[2]],
                     Catch(UpstreamErrorMessage(head)))
         ELSE conn' = [conn EXCEPT ![c].pc = "awaitText", ![c].reply = head]
    /\ UNCHANGED nUpstream
    /\ serverFrame
    /\ UNCHANGED clientVars
    /\ UNCHANGED metricVars

\* polygonFetch: const body = await response.text(); throw new Error(...)
TextSettles(c) ==
    /\ Turn
    /\ conn[c].pc = "awaitText"
    /\ \E b \in NotOkBodies :
         LET reply == [conn[c].reply EXCEPT !.body = b[1], !.readable = b[2]] IN
         Sent(c, reply,
              IF b[2] THEN Catch(UpstreamErrorMessage(reply)) ELSE Catch(BodyStreamMessage))
    /\ UNCHANGED nUpstream
    /\ serverFrame
    /\ UNCHANGED clientVars
    /\ UNCHANGED metricVars

\* const data = await response.json(); res.json(data)
JsonSettles(c) ==
    /\ Turn
    /\ conn[c].pc = "awaitJson"
    /\ \E b \in OkBodyOutcomes :
         LET reply == [conn[c].reply EXCEPT !.body = b[1], !.readable = b[2]]
             parsed == JSONParse(b[1])
         IN Sent(c, reply,
                 CASE ~b[2] -> Catch(BodyStreamMessage)
                   [] ~parsed.ok -> Catch(parsed.message)
                   [] OTHER -> SuccessResponse(parsed.value))
    /\ UNCHANGED nUpstream
    /\ serverFrame
    /\ UNCHANGED clientVars
    /\ UNCHANGED metricVars

\* The response is on the wire and the connection takes the next request.
Close(c) ==
    /\ conn[c].pc = "sent"
    /\ conn' = [conn EXCEPT ![c] = Idle]
    /\ UNCHANGED nUpstream
    /\ serverFrame
    /\ UNCHANGED clientVars
    /\ UNCHANGED metricVars

\* What a handler answers to req when the upstream call ends as `reply`.
HandlerResponse(v, key, req, reply) ==
    CASE Rejected(req) -> ErrorResponse(400, RejectionMessage(req))
      [] reply.settled = "rejected" -> Catch(FetchFailedMessage(FetchCall(v, key, req)))
      [] ~reply.ok ->
            IF v = "header" /\ ~reply.readable
            THEN Catch(BodyStreamMessage)
            ELSE Catch(UpstreamErrorMessage(reply))
      [] ~reply.readable -> Catch(BodyStreamMessage)
      [] ~JSONParse(reply.body).ok -> Catch(JSONParse(reply.body).message)
      [] OTHER -> SuccessResponse(JSONParse(reply.body).value)

\* ------------------------------------------------------------------------
\* The page: StockResearchApp
\* ------------------------------------------------------------------------

\* Selections of a stock in one run.
MaxSelect == 2

Null == <<"null">>

\* setTimeout(..., 500)
DebounceDelay == 500

\* The step by which time is seen to pass.
Quantum == DebounceDelay \div 2

\* const timer = setTimeout(() => setDebouncedQuery(searchQuery), 500): the
\* callback holds the searchQuery of the render that set it.
Timeout(v) == [value |-> v, left |-> DebounceDelay]

\* As ClearTimeout, with the effect returning no cleanup: no timer is cancelled.
ClearTimeoutNever(pending, v) == pending

\* return () => clearTimeout(timer): the timer the effect set for v, if it has
\* not fired yet, is cancelled.
ClearTimeout(pending, v) == {t \in pending : t.value # v}

\* The debounce effect when searchQuery goes from `old` to v: the cleanup of
\* the last run, then the new timer.
DebounceEffect(pending, old, v) == ClearTimeout(pending, old) \cup {Timeout(v)}

\* What the user may have in the search input.
SearchInputs == {<<>>, <<"a">>, <<"a", "b">>}

\* The tickers the provider knows.
Symbols == {<<"X">>, <<"Y">>}

\* The three queries of the stock page.
Kinds == {"details", "previous", "financials"}

\* A cache entry: no data yet, the data of a fetch that succeeded (`about`:
\* the ticker or search text in the URL that was fetched, `results`: the
\* tickers a search found), or the error of one that failed.
NoEntry == [status |-> "none", about |-> <<>>, results |-> {}]
DataEntry(about, results) == [status |-> "success", about |-> about, results |-> results]
ErrorEntry == [status |-> "error", about |-> <<>>, results |-> {}]

SearchFetch(q) == [kind |-> "search", key |-> q, url |-> q]
StockFetch(ticker, kind) == [kind |-> kind, key |-> ticker, url |-> ticker]

\* As SearchEnabled, with the search query always enabled.
SearchEnabledAlways(q) == TRUE

\* enabled: debouncedQuery.length >= 2
SearchEnabled(q) == Len(q) >= 2

\* enabled: !!selectedTicker
StockEnabled(ticker) == ticker # Null /\ ticker # <<>>

\* useQuery fetches for a key that is enabled, holds no data and is not being fetched.
FetchesStartedFor(fetches, flying) ==
    {f \in fetches :
        /\ f \notin flying
        /\ IF f.kind = "search"
           THEN SearchEnabled(f.key) /\ searchCache[f.key].status # "success"
           ELSE StockEnabled(f.key) /\ cache[<<f.key, f.kind>>].status # "success"}

\* data of useQuery under the current key
searchResults == searchCache[debouncedQuery]
QueryData(kind) ==
    IF selectedTicker \in Symbols THEN cache[<<selectedTicker, kind>>] ELSE NoEntry

\* What the stock page shows.  A text or a figure taken from fetched data is
\* written as the ticker the data was fetched for; a text the page itself
\* supplies is written as it stands.

\* data?.results?.field || fallback: data is undefined unless a fetch of the
\* kind has succeeded for the selection.
ShownOr(kind, fallback) ==
    IF QueryData(kind).status = "success" THEN QueryData(kind).about ELSE fallback

\* {stockDetails?.results?.name || "Loading..."}
HeaderName == ShownOr("details", <<"Loading...">>)

\* {stockDetails?.results?.sic_description || "Technology"}
HeaderIndustry == ShownOr("details", <<"Technology">>)

\* {stockDetails?.results?.description || "Apple Inc. designs, manufactures, ..."}
AboutText == ShownOr("details", <<"Apple Inc.">>)

\* ${currentPrice.toFixed(2)}, with currentPrice = previousDay?.results?.[0]?.c || 0
HeaderPrice == ShownOr("previous", <<"$0.00">>)

\* {currentPrice > 0 ? `$${currentPrice.toFixed(2)}` : "N/A"}
StockPriceCard == ShownOr("previous", <<"N/A">>)

\* The bars, lines and areas of the charts: none for data that is undefined or [].
ChartContent == ShownOr("financials", <<>>)

\* onChange={(e) => setSearchQuery(e.target.value)}; the effect on
\* [searchQuery] clears the pending timer and sets a new one.
Type(v) ==
    /\ selectedTicker = Null
    /\ v # searchQuery
    /\ searchQuery' = v
    /\ timers' = DebounceEffect(timers, searchQuery, v)
    /\ stableFor' = 0
    /\ superseded' = (superseded \/ ClearTimeout(timers, searchQuery) # timers)
    /\ UNCHANGED <<debouncedQuery, selectedTicker, searchCache, cache, inflight, nSelected>>
    /\ UNCHANGED serverVars
    /\ UNCHANGED metricVars

\* Time passes.
Tick ==
    /\ \/ stableFor < DebounceDelay
       \/ \E t \in timers : t.left > 0
    /\ timers' = {[t EXCEPT !.left = IF @ > Quantum THEN @ - Quantum ELSE 0] : t \in timers}
    /\ stableFor' = IF stableFor + Quantum < DebounceDelay THEN stableFor + Quantum
                    ELSE DebounceDelay
    /\ UNCHANGED <<searchQuery, debouncedQuery, selectedTicker, superseded, searchCache, cache,
                   inflight, nSelected>>
    /\ UNCHANGED serverVars
    /\ UNCHANGED metricVars

\* A timer whose delay has passed fires: setDebouncedQuery(searchQuery), with
\* the searchQuery its callback holds; the search query, keyed by the new
\* text, fetches.
TimerFires ==
    \E t \in timers :
        /\ t.left = 0
        /\ debouncedQuery' = t.value
        /\ timers' = timers \ {t}
        /\ inflight' = inflight \cup FetchesStartedFor({SearchFetch(t.value)}, inflight)
        /\ UNCHANGED <<searchQuery, selectedTicker, stableFor, superseded, searchCache, cache,
                       nSelected>>
        /\ UNCHANGED serverVars
        /\ UNCHANGED metricVars

\* As handleSelectStock, without setSearchQuery(""): the input keeps its text.
handleSelectStockKeepingQuery(ticker) ==
    /\ selectedTicker = Null
    /\ nSelected < MaxSelect
    /\ searchResults.status = "success"
    /\ ticker \in searchResults.results
    /\ selectedTicker' = ticker
    /\ inflight' = inflight \cup
            FetchesStartedFor({StockFetch(ticker, k) : k \in Kinds}, inflight)
    /\ nSelected' = nSelected + 1
    /\ UNCHANGED <<searchQuery, timers, stableFor, superseded, debouncedQuery, searchCache,
                   cache>>
    /\ UNCHANGED serverVars
    /\ UNCHANGED metricVars

\* handleSelectStock(ticker), from the button of a search result:
\* setSelectedTicker(ticker), setSearchQuery(""); the three queries, keyed by
\* the new ticker, fetch, and the debounce effect runs if the text changed.
handleSelectStock(ticker) ==
    /\ selectedTicker = Null
    /\ nSelected < MaxSelect
    /\ searchResults.status = "success"
    /\ ticker \in searchResults.results
    /\ selectedTicker' = ticker
    /\ searchQuery' = <<>>
    /\ IF searchQuery # <<>>
       THEN /\ timers' = DebounceEffect(timers, searchQuery, <<>>)
            /\ stableFor' = 0
            /\ superseded' = (superseded \/ ClearTimeout(timers, searchQuery) # timers)
       ELSE UNCHANGED <<timers, stableFor, superseded>>
    /\ inflight' = inflight \cup
            FetchesStartedFor({StockFetch(ticker, k) : k \in Kinds}, inflight)
    /\ nSelected' = nSelected + 1
    /\ UNCHANGED <<debouncedQuery, searchCache, cache>>
    /\ UNCHANGED serverVars
    /\ UNCHANGED metricVars

\* "Back to Search": onClick={() => setSelectedTicker(null)}
BackToSearch ==
    /\ selectedTicker # Null
    /\ selectedTicker' = Null
    /\ UNCHANGED <<searchQuery, debouncedQuery, timers, stableFor, superseded, searchCache,
                   cache, inflight, nSelected>>
    /\ UNCHANGED serverVars
    /\ UNCHANGED metricVars

\* As SlotOf, with one slot per kind, that of the stock now on the page.
SlotOfSelection(f) ==
    IF f.kind # "search" /\ selectedTicker \in Symbols THEN selectedTicker ELSE f.key

\* The cache slot the outcome of fetch f is written to: the key f was started under.
SlotOf(f) == f.key

\* The proxy answers f with a success status: the data is what the provider
\* holds for the ticker (or search text) in the URL.
ResponseArrives(f) ==
    /\ f \in inflight
    /\ inflight' = inflight \ {f}
    /\ IF f.kind = "search"
       THEN /\ \E found \in {{}, Symbols} :
                searchCache' = [searchCache EXCEPT ![SlotOf(f)] = DataEntry(f.url, found)]
            /\ UNCHANGED cache
       ELSE /\ cache' = [cache EXCEPT ![<<SlotOf(f), f.kind>>] = DataEntry(f.url, {})]
            /\ UNCHANGED searchCache
    /\ UNCHANGED <<searchQuery, debouncedQuery, selectedTicker, timers, stableFor, superseded,
                   nSelected>>
    /\ UNCHANGED serverVars
    /\ UNCHANGED metricVars

\* As RetryFailed, retrying every failed fetch (the library's own default).
RetryFailedAlways(f) == TRUE

\* defaultOptions.queries.retry of the QueryClient the page runs under: whether
\* a fetch whose queryFn threw is issued again by the library itself.
RetryFailed(f) == FALSE

\* The proxy answers f with a non-success status, or the fetch fails: the
\* queryFn throws.
FetchFails(f) ==
    /\ f \in inflight
    /\ inflight' = IF RetryFailed(f) THEN inflight ELSE inflight \ {f}
    /\ IF f.kind = "search"
       THEN /\ searchCache' = [searchCache EXCEPT ![SlotOf(f)] = ErrorEntry]
            /\ UNCHANGED cache
       ELSE /\ cache' = [cache EXCEPT ![<<SlotOf(f), f.kind>>] = ErrorEntry]
            /\ UNCHANGED searchCache
    /\ UNCHANGED <<searchQuery, debouncedQuery, selectedTicker, timers, stableFor, superseded,
                   nSelected>>
    /\ UNCHANGED serverVars
    /\ UNCHANGED metricVars

AllFetches ==
    {SearchFetch(q) : q \in SearchInputs} \cup
    {StockFetch(t, k) : t \in Symbols, k \in Kinds}

\* ------------------------------------------------------------------------
\* The proxy
\* ------------------------------------------------------------------------

\* The page is not open.
ClientAtRest ==
    /\ searchQuery = <<>>
    /\ debouncedQuery = <<>>
    /\ selectedTicker = Null
    /\ timers = {}
    /\ stableFor = 0
    /\ superseded = FALSE
    /\ searchCache = [q \in SearchInputs |-> NoEntry]
    /\ cache = [k \in Symbols \X Kinds |-> NoEntry]
    /\ inflight = {}
    /\ nSelected = 0

Init ==
    /\ apiKey \in KeyValues
    /\ variant \in Variants
    /\ startup = "boot"
    /\ routes = {}
    /\ httpServer = FALSE
    /\ conn = [c \in Conns |-> Idle]
    /\ nArrived = 0
    /\ nValidated = 0
    /\ nUpstream = 0
    /\ ClientAtRest
    /\ MetricsAtRest

Next ==
    \/ RegisterRoutes
    \/ \E c \in Conns : HandleSearch(c)
    \/ \E c \in Conns : HandleDetails(c)
    \/ \E c \in Conns : HandleIncome(c)
    \/ \E c \in Conns : HandleAggregates(c)
    \/ \E c \in Conns : HandlePrevious(c)
    \/ \E c \in Conns : FetchRejects(c)
    \/ \E c \in Conns : FetchResolvesOk(c)
    \/ \E c \in Conns : FetchResolvesNotOk(c)
    \/ \E c \in Conns : TextSettles(c)
    \/ \E c \in Conns : JsonSettles(c)
    \/ \E c \in Conns : Close(c)

Spec == Init /\ [][Next]_vars

\* The requests of the runs in which every upstream call settles: for each
\* route, one that passes the validation of its parameters and, where there
\* is one, one that does not.
LiveRequests ==
    {[query |-> q, op |-> "search", ticker |-> <<>>] :
        q \in {NoQuery, [NoQuery EXCEPT !.q = <<"a", "b">>]}}
    \cup {[query |-> NoQuery, op |-> o, ticker |-> t] :
            o \in {"details", "income", "previous"}, t \in Tickers}
    \cup {[query |-> q, op |-> "aggregates", ticker |-> t] :
            q \in {NoQuery,
                   [NoQuery EXCEPT !.from = <<"2", "-", "1">>, !.to = <<"2", "-", "1">>]},
            t \in Tickers}

LiveNext ==
    \/ RegisterRoutes
    \/ \E c \in Conns, req \in LiveRequests : Handle(c, req)
    \/ \E c \in Conns : FetchRejects(c)
    \/ \E c \in Conns : FetchResolvesOk(c)
    \/ \E c \in Conns : FetchResolvesNotOk(c)
    \/ \E c \in Conns : TextSettles(c)
    \/ \E c \in Conns : JsonSettles(c)
    \/ \E c \in Conns : Close(c)

\* The proxy with every upstream call settling: fetch resolves or rejects,
\* the read of a body it delivered ends, and a response written goes out.
LiveSpec ==
    /\ Init
    /\ [][LiveNext]_vars
    /\ \A c \in Conns :
          /\ WF_vars(FetchRejects(c) \/ FetchResolvesOk(c) \/ FetchResolvesNotOk(c))
          /\ WF_vars(TextSettles(c))
          /\ WF_vars(JsonSettles(c))
          /\ WF_vars(Close(c))

\* ------------------------------------------------------------------------
\* The page, with the proxy as its environment
\* ------------------------------------------------------------------------

\* The page has mounted: the debounce effect has run once and set its timer.
ClientInit ==
    /\ apiKey = <<"k", "1">>
    /\ variant = "header"
    /\ startup = "serving"
    /\ routes = Ops
    /\ httpServer = TRUE
    /\ conn = [c \in Conns |-> Idle]
    /\ nArrived = 0
    /\ nValidated = 0
    /\ nUpstream = 0
    /\ searchQuery = <<>>
    /\ debouncedQuery = <<>>
    /\ selectedTicker = Null
    /\ timers = {Timeout(<<>>)}
    /\ stableFor = 0
    /\ superseded = FALSE
    /\ searchCache = [q \in SearchInputs |-> NoEntry]
    /\ cache = [k \in Symbols \X Kinds |-> NoEntry]
    /\ inflight = {}
    /\ nSelected = 0
    /\ MetricsAtRest

ClientNext ==
    \/ \E v \in SearchInputs : Type(v)
    \/ Tick
    \/ TimerFires
    \/ \E t \in Symbols : handleSelectStock(t)
    \/ BackToSearch
    \/ \E f \in AllFetches : ResponseArrives(f)
    \/ \E f \in AllFetches : FetchFails(f)

ClientSpec == ClientInit /\ [][ClientNext]_vars

\* The page with time passing: the clock advances while a timer is pending,
\* and a timer whose delay has passed runs its callback.
ClientLiveSpec == ClientSpec /\ WF_vars(Tick) /\ WF_vars(TimerFires)

\* ------------------------------------------------------------------------
\* Properties of the proxy
\* ------------------------------------------------------------------------

\* Whether `sub` occurs in `seq` as consecutive elements.
Contains(seq, sub) ==
    \E i \in 1..(Len(seq) - Len(sub) + 1) : SubSeq(seq, i, i + Len(sub) - 1) = sub

\* The elements of `seq` after the first occurrence of the literal piece `lit`.
RECURSIVE After(_, _)
After(seq, lit) ==
    IF seq = <<>> THEN <<>>
    ELSE IF Head(seq) = lit THEN Tail(seq) ELSE After(Tail(seq), lit)

\* The elements of `seq` before the first literal piece in `stops` (or all).
RECURSIVE UpTo(_, _)
UpTo(seq, stops) ==
    IF seq = <<>> \/ Head(seq) \in stops THEN <<>>
    ELSE <<Head(seq)>> \o UpTo(Tail(seq), stops)

\* The value that follows the literal piece `lit` in a URL.
Forwarded(url, lit) ==
    UpTo(After(url, lit),
         {"&timeframe=", "&limit=", "&apiKey=", "/", "?adjusted=true&sort=asc"})

Handled(c) == conn[c].pc # "idle"
Answered(c) == conn[c].pc = "sent"

\* A string of white space alone, the empty string included.
RECURSIVE Blank(_)
Blank(str) == str = <<>> \/ (Head(str) = " " /\ Blank(Tail(str)))

NoCallMade(c) == ~conn[c].call.made /\ conn[c].calls = 0

\* C1, as stated: a search whose q is absent, empty or white space alone is
\* answered 400 and no upstream call is made for it.
C1_Original ==
    \A c \in Conns :
        (/\ Handled(c)
         /\ conn[c].req.op = "search"
         /\ (conn[c].req.query.q = Undefined \/ Blank(conn[c].req.query.q)))
        => (Answered(c) /\ conn[c].resp.status = 400 /\ NoCallMade(c))

\* C1, amended: a search whose q is absent or empty is answered 400 and no
\* upstream call is made for it; a q of white space alone passes the check
\* and is sent upstream, percent-encoded.
C1_SearchWithoutQ ==
    \A c \in Conns :
        (Handled(c) /\ conn[c].req.op = "search") =>
            LET q == conn[c].req.query.q IN
            /\ (q = Undefined \/ q = <<>>) =>
                    (/\ Answered(c)
                     /\ conn[c].resp.status = 400
                     /\ conn[c].resp.kind = "error"
                     /\ NoCallMade(c))
            /\ q = <<" ">> =>
                    (/\ conn[c].call.made
                     /\ Forwarded(conn[c].call.url, "/v3/reference/tickers?search=")
                            = <<"%20", "&active=true&limit=10">>
                     /\ conn[c].resp.status # 400)

C1_Witness ==
    \E c \in Conns :
        /\ Answered(c)
        /\ conn[c].req.op = "search"
        /\ conn[c].req.query.q = <<>>
        /\ conn[c].resp.status = 400

\* C2: an aggregates request whose `from` or `to` is absent or empty is
\* answered 400 and no upstream call is made for it, whatever the ticker,
\* timespan and multiplier.
C2_AggregatesWithoutRange ==
    \A c \in Conns :
        (/\ Handled(c)
         /\ conn[c].req.op = "aggregates"
         /\ \/ conn[c].req.query.from \in {Undefined, <<>>}
            \/ conn[c].req.query.to \in {Undefined, <<>>})
        => (/\ Answered(c)
            /\ conn[c].resp.status = 400
            /\ conn[c].resp.kind = "error"
            /\ NoCallMade(c))

C2_Witness ==
    \E c \in Conns :
        /\ Answered(c)
        /\ conn[c].req.op = "aggregates"
        /\ conn[c].req.query.from = <<"2", "-", "1">>
        /\ conn[c].req.query.to = Undefined
        /\ conn[c].req.query.timespan = <<"w">>
        /\ conn[c].req.query.multiplier = <<"2">>
        /\ conn[c].resp.status = 400

\* C3: with POLYGON_API_KEY unset or empty no route is ever registered, no
\* HTTP server created, no request handled and no upstream call made.
C3_NoKeyNoService ==
    apiKey \in {Undefined, <<>>} =>
        /\ startup \in {"boot", "failed"}
        /\ routes = {}
        /\ ~httpServer
        /\ \A c \in Conns : ~Handled(c)
        /\ nArrived = 0
        /\ nUpstream = 0

C3_Witness == apiKey = <<>> /\ startup = "failed"

UpstreamFailed(c) ==
    /\ Answered(c)
    /\ conn[c].call.made
    /\ \/ conn[c].reply.settled = "rejected"
       \/ conn[c].reply.settled = "responded" /\ ~conn[c].reply.ok

\* C4: in each of the five handlers a non-success upstream status is answered
\* 500 with a message that embeds the upstream status text, a transport
\* failure is answered 500 with an error message, and neither is answered 200.
C4_UpstreamFailureEmbedsStatusText ==
    \A c \in Conns :
        UpstreamFailed(c) =>
            /\ conn[c].resp.status = 500
            /\ conn[c].resp.kind = "error"
            /\ conn[c].reply.settled = "responded" =>
                    Contains(conn[c].resp.content, conn[c].reply.statusText)

\* C5: one upstream call per request that passes validation, none for the
\* others: the calls made are as many as the validated requests, a request
\* never has a second call made for it, and its answer is the one its own
\* upstream reply determines.
C5_OneCallPerRequest ==
    /\ nUpstream = nValidated
    /\ nValidated <= nArrived
    /\ \A c \in Conns :
        /\ conn[c].calls = (IF conn[c].call.made THEN 1 ELSE 0)
        /\ (Handled(c) /\ ~Answered(c)) => conn[c].call.made
        /\ Answered(c) =>
                conn[c].resp = HandlerResponse(variant, apiKey, conn[c].req, conn[c].reply)

C5_Witness ==
    /\ nValidated = 2
    /\ nUpstream = 2
    /\ \E c \in Conns : Answered(c) /\ conn[c].reply.settled = "rejected"

ValidKeys == {k \in KeyValues : k # Undefined /\ k # <<>>}

\* C6: the answer does not depend on the credential: with any other key in
\* place of the one in use, the same request and the same upstream outcome
\* give the same status and body; and the key does not occur in the answer.
C6_AnswerIndependentOfKey ==
    \A c \in Conns :
        Answered(c) =>
            /\ \A k \in ValidKeys :
                    conn[c].resp = HandlerResponse(variant, k, conn[c].req, conn[c].reply)
            /\ ~Contains(conn[c].resp.content, apiKey)

C6_Witness ==
    \E c \in Conns :
        /\ Answered(c)
        /\ variant = "query"
        /\ Contains(conn[c].call.url, apiKey)
        /\ conn[c].reply.settled = "rejected"
        /\ conn[c].resp.status = 500

\* C7: the answer to a non-success upstream reply does not depend on that
\* reply's body: any other body under the same status text gives the same
\* answer, and no piece of the body occurs in it.
C7_AnswerIndependentOfErrorBody ==
    \A c \in Conns :
        (Answered(c) /\ conn[c].reply.settled = "responded" /\ ~conn[c].reply.ok) =>
            /\ \A b \in ErrBodies :
                    conn[c].resp = HandlerResponse(variant, apiKey, conn[c].req,
                                                   [conn[c].reply EXCEPT !.body = b])
            /\ \A i \in 1..Len(conn[c].reply.body) :
                    ~Contains(conn[c].resp.content, <<conn[c].reply.body[i]>>)

C7_Witness ==
    \E c \in Conns :
        /\ Answered(c)
        /\ variant = "header"
        /\ conn[c].reply.settled = "responded"
        /\ ~conn[c].reply.ok
        /\ conn[c].reply.readable
        /\ conn[c].reply.body = ErrBodyB
        /\ conn[c].resp.status = 500

\* C8: when the upstream call succeeds with a JSON payload the answer is 200
\* and its body is that payload; and a 200 is the answer only to a request
\* whose own upstream call succeeded.
C8_SuccessRelaysPayload ==
    \A c \in Conns :
        Answered(c) =>
            /\ (/\ conn[c].reply.settled = "responded"
                /\ conn[c].reply.ok
                /\ conn[c].reply.readable
                /\ conn[c].reply.body \in {JsonCompact, JsonPretty})
               => (/\ conn[c].resp.status = 200
                   /\ conn[c].resp.kind = "data"
                   /\ conn[c].resp.content = SelectSeq(conn[c].reply.body, NotSpace))
            /\ conn[c].resp.status = 200
               => (/\ conn[c].call.made
                   /\ conn[c].reply.settled = "responded"
                   /\ conn[c].reply.ok
                   /\ conn[c].reply.readable
                   /\ conn[c].reply.body \in {JsonCompact, JsonPretty})

C8_Witness ==
    \E c \in Conns :
        /\ Answered(c)
        /\ conn[c].req.op = "details"
        /\ conn[c].reply.body = JsonPretty
        /\ conn[c].resp.status = 200

Supplied(v) == v # Undefined

\* The four values of the /range/{multiplier}/{timespan}/{from}/{to} path.
RangePart(url, n) ==
    LET p1 == After(url, "/range/")
        p2 == After(p1, "/")
        p3 == After(p2, "/")
        p4 == After(p3, "/")
    IN UpTo(CASE n = 1 -> p1 [] n = 2 -> p2 [] n = 3 -> p3 [] OTHER -> p4,
            {"/", "?adjusted=true&sort=asc"})

\* C9, as stated: an absent timeframe, limit, timespan or multiplier is
\* forwarded as "annual", 5, "day", 1; one the client supplies is forwarded
\* with the client's value.
C9_Original ==
    \A c \in Conns :
        conn[c].call.made =>
            LET q == conn[c].req.query
                url == conn[c].call.url
            IN /\ conn[c].req.op = "income" =>
                    /\ Forwarded(url, "&timeframe=") =
                            (IF Supplied(q.timeframe) THEN q.timeframe
                             ELSE <<"a", "n", "n", "u", "a", "l">>)
                    /\ Forwarded(url, "&limit=") =
                            (IF Supplied(q.limit) THEN q.limit ELSE <<"5">>)
               /\ conn[c].req.op = "aggregates" =>
                    /\ RangePart(url, 2) =
                            (IF Supplied(q.timespan) THEN q.timespan ELSE <<"d", "a", "y">>)
                    /\ RangePart(url, 1) =
                            (IF Supplied(q.multiplier) THEN q.multiplier ELSE <<"1">>)

\* C9, amended: an absent timeframe, limit, timespan or multiplier is
\* forwarded as "annual", 5, "day", 1, and one the client supplies with a
\* non-empty value is forwarded with that value; a timeframe or limit
\* supplied empty is forwarded as the default ("annual", 5), a timespan or
\* multiplier supplied empty is forwarded empty.
C9_Defaults ==
    \A c \in Conns :
        conn[c].call.made =>
            LET q == conn[c].req.query
                url == conn[c].call.url
            IN /\ conn[c].req.op = "income" =>
                    /\ Forwarded(url, "&timeframe=") =
                            (IF q.timeframe \in {Undefined, <<>>}
                             THEN <<"a", "n", "n", "u", "a", "l">> ELSE q.timeframe)
                    /\ Forwarded(url, "&limit=") =
                            (IF q.limit \in {Undefined, <<>>} THEN <<"5">> ELSE q.limit)
               /\ conn[c].req.op = "aggregates" =>
                    /\ RangePart(url, 2) =
                            (IF q.timespan = Undefined THEN <<"d", "a", "y">> ELSE q.timespan)
                    /\ RangePart(url, 1) =
                            (IF q.multiplier = Undefined THEN <<"1">> ELSE q.multiplier)
                    /\ RangePart(url, 3) = q.from
                    /\ RangePart(url, 4) = q.to

C9_Witness ==
    \E c \in Conns :
        /\ conn[c].call.made
        /\ conn[c].req.op = "income"
        /\ conn[c].req.query.timeframe = Undefined
        /\ conn[c].req.query.limit = <<"7">>
        /\ Forwarded(conn[c].call.url, "&timeframe=") = <<"a", "n", "n", "u", "a", "l">>
        /\ Forwarded(conn[c].call.url, "&limit=") = <<"7">>

\* ------------------------------------------------------------------------
\* Properties of the page
\* ------------------------------------------------------------------------

\* C10: whatever the order of selections and arriving responses, the details,
\* previous-session and financials data the page shows were fetched for the
\* ticker now selected; a response for another ticker is kept in that
\* ticker's own (ticker, kind) slot.
C10_DisplayedDataIsOfSelection ==
    /\ \A k \in Kinds :
            QueryData(k).status = "success" => QueryData(k).about = selectedTicker
    /\ \A t \in Symbols, k \in Kinds :
            cache[<<t, k>>].status = "success" => cache[<<t, k>>].about = t
    /\ \A f \in inflight : f.url = f.key

C10_Witness ==
    /\ nSelected = 2
    /\ selectedTicker = <<"Y">>
    /\ cache[<<<<"X">>, "details">>].status = "success"
    /\ StockFetch(<<"X">>, "previous") \in inflight
    /\ QueryData("details").status = "success"
    /\ QueryData("financials").status = "none"

\* The search fetches a step starts.
SearchFetchesStarted == {f \in inflight' \ inflight : f.kind = "search"}

\* C11: at most one debounce timer is pending at any time, and it is the one
\* set for the text now in the input (a superseded one is gone and cannot
\* fire); debouncedQuery is set, and a search fetch started, only with the
\* text of the input after it has kept its value for the whole delay.
C11_Debounce ==
    /\ [](/\ Cardinality(timers) <= 1
          /\ \A t \in timers :
                /\ t.value = searchQuery
                /\ t.left + stableFor >= DebounceDelay)
    /\ [][/\ debouncedQuery' # debouncedQuery =>
                (/\ debouncedQuery' = searchQuery
                 /\ stableFor = DebounceDelay)
           /\ \A f \in SearchFetchesStarted :
                (/\ f.key = searchQuery
                 /\ stableFor = DebounceDelay)]_vars

C11_Witness ==
    /\ superseded
    /\ debouncedQuery = <<"a", "b">>
    /\ searchQuery = <<"a", "b">>
    /\ SearchFetch(<<"a", "b">>) \in inflight
    /\ searchCache[<<"a">>].status = "none"
    /\ SearchFetch(<<"a">>) \notin inflight
    /\ timers = {}

\* Whether the step ends a fetch of f in failure.
FailsNow(f) ==
    /\ f \in inflight
    /\ cache'[<<f.key, f.kind>>] # cache[<<f.key, f.kind>>]
    /\ cache'[<<f.key, f.kind>>].status = "error"

\* C12: a details, previous-session or financials fetch that failed is not
\* in flight again when its failure has been recorded, and a fetch of these
\* kinds is started only by the step in which the user selects its ticker.
C12_NoAutomaticRetry ==
    [][\A t \in Symbols, k \in Kinds :
          LET f == StockFetch(t, k) IN
          /\ FailsNow(f) => f \notin inflight'
          /\ (f \in inflight' /\ f \notin inflight) =>
                (selectedTicker = Null /\ selectedTicker' = t)]_vars

C12_Witness ==
    /\ nSelected = 2
    /\ selectedTicker = <<"X">>
    /\ cache[<<<<"X">>, "details">>].status = "error"
    /\ StockFetch(<<"X">>, "details") \in inflight
    /\ cache[<<<<"X">>, "previous">>].status = "error"
    /\ StockFetch(<<"X">>, "previous") \in inflight

\* ------------------------------------------------------------------------
\* JavaScript numbers and their text
\* ------------------------------------------------------------------------

\* A number with a finite decimal expansion is m * 10^e, m not a multiple of
\* 10 (0 is m = 0, e = 0).  Products and quotients by powers of ten are taken
\* on the decimal expansion: a double stands for the decimal it is written
\* as, and the amounts the functions are applied to lie away from the ties
\* where the binary rounding of a double could fall on the other side.
Dec(m, e) == [m |-> m, e |-> e]

\* NaN, and its text
NaN == [nan |-> TRUE]
NaNText == <<"N", "a", "N">>

\* undefined, where a number or an object may stand
UndefinedValue == [undefined |-> TRUE]

\* undefined, where an array may stand
UndefinedList == <<UndefinedValue>>

RECURSIVE Pow10(_)
Pow10(k) == IF k <= 0 THEN 1 ELSE 10 * Pow10(k - 1)

RECURSIVE Norm(_)
Norm(x) ==
    IF x.m = 0 THEN Dec(0, 0)
    ELSE IF x.m % 10 = 0 THEN Norm(Dec(x.m \div 10, x.e + 1))
    ELSE x

\* The number n, an integer.
Num(n) == Norm(Dec(n, 0))

Abs(n) == IF n < 0 THEN -n ELSE n

\* The count of decimal digits of n > 0.
RECURSIVE Digits(_)
Digits(n) == IF n < 10 THEN 1 ELSE 1 + Digits(n \div 10)

\* x || d for x a number or undefined: undefined, NaN and 0 are falsy.
NumberOr(x, d) == IF x = UndefinedValue \/ x = NaN \/ x.m = 0 THEN d ELSE x

\* x / 10^k; undefined / 10^k is NaN
DivPow10(x, k) == IF x \in {UndefinedValue, NaN} THEN NaN ELSE Norm(Dec(x.m, x.e - k))

\* x * y
Times(x, y) == Norm(Dec(x.m * y.m, x.e + y.e))

\* x >= 10^k
AtLeastPow10(x, k) == x.m > 0 /\ Digits(x.m) + x.e >= k + 1

\* The mantissa of x when written with exponent e <= x.e.
MantissaAt(x, e) == x.m * Pow10(x.e - e)

\* x - y
Minus(x, y) ==
    IF x \in {UndefinedValue, NaN} \/ y \in {UndefinedValue, NaN} THEN NaN
    ELSE LET e == IF x.e < y.e THEN x.e ELSE y.e IN Norm(Dec(MantissaAt(x, e) - MantissaAt(y, e), e))

\* x > 0: false of undefined and of NaN
Positive(x) == x \notin {UndefinedValue, NaN} /\ x.m > 0

\* x >= n, n an integer: false of undefined and of NaN
AtLeast(x, n) == Minus(x, Num(n)) # NaN /\ Minus(x, Num(n)).m >= 0

\* The integer nearest to a / b (b > 0), a tie going up: Math.round(a / b).
RoundDiv(a, b) == (2 * a + b) \div (2 * b)

\* Math.round(x)
MathRound(x) ==
    IF x.e >= 0 THEN x.m * Pow10(x.e)
    ELSE IF -x.e > 9 THEN 0
    ELSE RoundDiv(x.m, Pow10(-x.e))

DigitChars == <<"0", "1", "2", "3", "4", "5", "6", "7", "8", "9">>

\* The decimal digits of n >= 0, as text.
RECURSIVE NatToString(_)
NatToString(n) ==
    IF n < 10 THEN <<DigitChars[n + 1]>>
    ELSE NatToString(n \div 10) \o <<DigitChars[(n % 10) + 1]>>

\* n.toString(), n an integer
IntToString(n) == IF n < 0 THEN <<"-">> \o NatToString(-n) ELSE NatToString(n)

\* The value of a digit character, -1 for any other character.
DigitValue(ch) ==
    IF \E d \in 1..10 : DigitChars[d] = ch
    THEN (CHOOSE d \in 1..10 : DigitChars[d] = ch) - 1
    ELSE -1

\* The value of the digits `s` starts with, after `acc`.
RECURSIVE LeadingDigits(_, _)
LeadingDigits(s, acc) ==
    IF s = <<>> \/ DigitValue(Head(s)) < 0 THEN acc
    ELSE LeadingDigits(Tail(s), 10 * acc + DigitValue(Head(s)))

\* parseInt(s): the integer `s` starts with, NaN when it starts with none.
ParseInt(s) ==
    IF s = <<>> \/ DigitValue(Head(s)) < 0 THEN NaN ELSE Num(LeadingDigits(s, 0))

\* n of 0..10^d - 1 written with d digits.
RECURSIVE Padded(_, _)
Padded(n, d) == IF d = 0 THEN <<>> ELSE Padded(n \div 10, d - 1) \o <<DigitChars[(n % 10) + 1]>>

\* The text of |a / b| rounded to d decimals (a tie going away from 0), with
\* the sign of a / b: (a / b).toFixed(d) for integers a and b > 0.
QuotientToFixed(a, b, d) ==
    LET n == RoundDiv(Abs(a) * Pow10(d), b) IN
    (IF a < 0 THEN <<"-">> ELSE <<>>)
        \o NatToString(n \div Pow10(d))
        \o (IF d > 0 THEN <<".">> \o Padded(n % Pow10(d), d) ELSE <<>>)

\* x.toFixed(d)
ToFixed(x, d) ==
    IF x.e + d >= 0 THEN QuotientToFixed(x.m * Pow10(x.e + d), Pow10(d), d)
    ELSE IF -(x.e + d) > 9 THEN QuotientToFixed(0, 1, d)
    ELSE LET n == RoundDiv(Abs(x.m), Pow10(-(x.e + d))) IN
         (IF x.m < 0 THEN <<"-">> ELSE <<>>)
            \o NatToString(n \div Pow10(d))
            \o (IF d > 0 THEN <<".">> \o Padded(n % Pow10(d), d) ELSE <<>>)

\* The digits of n >= 0 in groups of three, "," between the groups.
RECURSIVE Grouped(_)
Grouped(n) ==
    IF n < 1000 THEN NatToString(n)
    ELSE Grouped(n \div 1000) \o <<",">> \o Padded(n % 1000, 3)

\* x.toLocaleString() where the locale groups by three with "," and writes
\* "." before the decimals (en-US): at most three decimals, no trailing zeros.
ToLocaleString(x) ==
    LET thousandths == IF x.e >= -3 THEN Abs(x.m) * Pow10(x.e + 3)
                       ELSE IF -(x.e + 3) > 9 THEN 0
                       ELSE RoundDiv(Abs(x.m), Pow10(-(x.e + 3)))
        whole == thousandths \div 1000
        frac == Norm(Dec(thousandths % 1000, -3))
    IN (IF x.m < 0 THEN <<"-">> ELSE <<>>)
        \o Grouped(whole)
        \o (IF frac.m = 0 THEN <<>>
            ELSE <<".">> \o Padded(frac.m, -frac.e))

\* ------------------------------------------------------------------------
\* Products too wide for one machine word
\* ------------------------------------------------------------------------

\* A natural number as its base-100 digits, the least significant first.
RECURSIVE BigOf(_)
BigOf(n) == IF n = 0 THEN <<>> ELSE <<n % 100>> \o BigOf(n \div 100)

RECURSIVE BigToInt(_)
BigToInt(a) == IF a = <<>> THEN 0 ELSE Head(a) + 100 * BigToInt(Tail(a))

\* a * k + carry, k > 0
RECURSIVE BigTimes(_, _, _)
BigTimes(a, k, carry) ==
    IF a = <<>> THEN BigOf(carry)
    ELSE LET p == Head(a) * k + carry IN <<p % 100>> \o BigTimes(Tail(a), k, p \div 100)

\* a * k^n
RECURSIVE BigTimesPow(_, _, _)
BigTimesPow(a, k, n) == IF n = 0 THEN a ELSE BigTimesPow(BigTimes(a, k, 0), k, n - 1)

\* Math.round(a * 10^e): a tie goes up
BigRound(a, e) ==
    LET b == IF e < 0 /\ (-e) % 2 = 1 THEN BigTimes(a, 10, 0) ELSE a
        k == IF e < 0 THEN (1 - e) \div 2 ELSE 0
    IN IF e >= 0 THEN BigToInt(BigTimesPow(a, 10, e))
       ELSE IF Len(b) < k THEN 0
       ELSE BigToInt(SubSeq(b, k + 1, Len(b))) + (IF b[k] >= 50 THEN 1 ELSE 0)

\* ------------------------------------------------------------------------
\* The derived metrics of the page
\* ------------------------------------------------------------------------

\* financials[0], financials?.results?.[0]: undefined when there is none.
First(list) == IF list = UndefinedList \/ list = <<>> THEN UndefinedValue ELSE list[1]

\* data?.results
ResultsOf(data) == IF data = UndefinedValue THEN UndefinedList ELSE data.results

\* item?.financials?.income_statement?.[name]?.value
StatementValue(item, name) ==
    IF item = UndefinedValue THEN UndefinedValue
    ELSE LET field == item.financials.income_statement[name] IN
         IF field = UndefinedValue THEN UndefinedValue ELSE field.value

RECURSIVE Reverse(_)
Reverse(seq) == IF seq = <<>> THEN <<>> ELSE Reverse(Tail(seq)) \o <<Head(seq)>>

\* x / 1e9
Billions(x) == DivPow10(x, 9)

\* As OrZero, without the `|| 0`.
OrZeroMissing(x) == x

\* x || 0
OrZero(x) == NumberOr(x, Num(0))

\* As revenueChartData, without the reverse().
revenueChartDataNewestFirst(financials) ==
    IF ResultsOf(financials) = UndefinedList THEN UndefinedList
    ELSE [i \in 1..Len(financials.results) |->
            [year |-> financials.results[i].fiscal_year,
             revenue |-> Billions(OrZero(StatementValue(financials.results[i], "revenues")))]]

\* financials?.results?.map((item) => ({ year, revenue })).reverse()
revenueChartData(financials) ==
    IF ResultsOf(financials) = UndefinedList THEN UndefinedList
    ELSE Reverse([i \in 1..Len(financials.results) |->
            [year |-> financials.results[i].fiscal_year,
             revenue |-> Billions(OrZero(StatementValue(financials.results[i], "revenues")))]])

\* financials?.results?.map((item) => ({ year, netIncome })).reverse()
profitChartData(financials) ==
    IF ResultsOf(financials) = UndefinedList THEN UndefinedList
    ELSE Reverse([i \in 1..Len(financials.results) |->
            [year |-> financials.results[i].fiscal_year,
             netIncome |->
                Billions(OrZero(StatementValue(financials.results[i], "net_income_loss")))]])

growthRate == Dec(105, -2)
discountRate == Dec(97, -2)
fcfMargin == Dec(15, -2)

\* As LatestYearText, reading the clock whatever the period says.
LatestYearTextOfClock(first, year) == IntToString(year)

\* financials[0]?.fiscal_year || new Date().getFullYear().toString()
LatestYearText(first, year) ==
    IF first = UndefinedValue \/ Falsy(first.fiscal_year) THEN IntToString(year)
    ELSE first.fiscal_year

\* (latestYear + i + 1).toString()
YearText(latestYear, n) ==
    IF latestYear = NaN THEN NaNText ELSE IntToString(MathRound(latestYear) + n)

\* As ProjectedFcf, the growth of one year applied whatever the year.
ProjectedFcfNotCompounded(latestRevenue, n) ==
    IF latestRevenue = NaN THEN NaN
    ELSE Num(BigRound(
            BigTimes(BigTimes(BigOf(latestRevenue.m), growthRate.m, 0), fcfMargin.m, 0),
            latestRevenue.e + growthRate.e + fcfMargin.e))

\* Math.round(latestRevenue * Math.pow(growthRate, i + 1) * 0.15), n = i + 1
ProjectedFcf(latestRevenue, n) ==
    IF latestRevenue = NaN THEN NaN
    ELSE Num(BigRound(
            BigTimes(BigTimesPow(BigOf(latestRevenue.m), growthRate.m, n), fcfMargin.m, 0),
            latestRevenue.e + n * growthRate.e + fcfMargin.e))

\* As ProjectedDcf, with the growth rate in the place of the discount rate.
ProjectedDcfByGrowth(latestRevenue, n) ==
    IF latestRevenue = NaN THEN NaN
    ELSE Num(BigRound(
            BigTimesPow(
                BigTimes(BigTimesPow(BigOf(latestRevenue.m), growthRate.m, n),
                         fcfMargin.m, 0),
                growthRate.m, n),
            latestRevenue.e + n * growthRate.e + fcfMargin.e + n * growthRate.e))

\* Math.round(latestRevenue * Math.pow(growthRate, i + 1) * 0.15
\*            * Math.pow(discountRate, i + 1))
ProjectedDcf(latestRevenue, n) ==
    IF latestRevenue = NaN THEN NaN
    ELSE Num(BigRound(
            BigTimesPow(
                BigTimes(BigTimesPow(BigOf(latestRevenue.m), growthRate.m, n),
                         fcfMargin.m, 0),
                discountRate.m, n),
            latestRevenue.e + n * growthRate.e + fcfMargin.e + n * discountRate.e))

\* Array.from({ length: 5 }, ...)
ProjectionYears == 5

\* The five entries generateDCFData returns for a list that is not empty.
Projection(financials, year) ==
    LET latestYear == ParseInt(LatestYearText(First(financials), year))
        latestRevenue == Billions(OrZero(StatementValue(First(financials), "revenues")))
    IN [n \in 1..ProjectionYears |->
            [year |-> YearText(latestYear, n),
             fcf |-> ProjectedFcf(latestRevenue, n),
             dcf |-> ProjectedDcf(latestRevenue, n)]]

\* As generateDCFData, without the test for an empty list.
generateDCFDataUnguarded(financials, year) == Projection(financials, year)

\* if (!financials || financials.length === 0) return []; ...
generateDCFData(financials, year) ==
    IF financials = UndefinedList \/ financials = <<>> THEN <<>>
    ELSE Projection(financials, year)

\* As SegmentValue, rounding to whole billions.
SegmentValueWhole(latestRevenue, share) ==
    IF latestRevenue = NaN THEN NaN
    ELSE Num(MathRound(Times(latestRevenue, share)))

\* Math.round(latestRevenue * share * 10) / 10
SegmentValue(latestRevenue, share) ==
    IF latestRevenue = NaN THEN NaN
    ELSE DivPow10(Num(MathRound(Times(Times(latestRevenue, share), Num(10)))), 1)

Segment(name, latestRevenue, share, growth, color) ==
    [name |-> name, value |-> SegmentValue(latestRevenue, share), growth |-> growth,
     color |-> color]

\* As generateDemoSegmentsData, without the test for 0.
generateDemoSegmentsDataAlways(latestRevenue) ==
    <<Segment("Products", latestRevenue, Dec(55, -2), Dec(52, -1), "#F59E0B"),
      Segment("Services", latestRevenue, Dec(3, -1), Dec(85, -1), "#3B82F6"),
      Segment("Other", latestRevenue, Dec(15, -2), Dec(31, -1), "#10B981")>>

generateDemoSegmentsData(latestRevenue) ==
    IF latestRevenue = Num(0) THEN <<>>
    ELSE <<Segment("Products", latestRevenue, Dec(55, -2), Dec(52, -1), "#F59E0B"),
           Segment("Services", latestRevenue, Dec(3, -1), Dec(85, -1), "#3B82F6"),
           Segment("Other", latestRevenue, Dec(15, -2), Dec(31, -1), "#10B981")>>

segmentsData(financials) ==
    generateDemoSegmentsData(
        Billions(OrZero(StatementValue(First(ResultsOf(financials)), "revenues"))))

\* As financialsAfterSeries, with reverse() called on financials.results itself.
financialsAfterSeriesReversed(financials) ==
    IF financials = UndefinedValue \/ ResultsOf(financials) = UndefinedList THEN financials
    ELSE [results |-> Reverse(financials.results)]

\* financials after financials?.results?.map(...).reverse() has run: map
\* returns a new array and reverse() reverses its receiver, that new array,
\* in place; financials.results is read and not written.
financialsAfterSeries(financials) == financials

\* previousDay?.results?.[0]?.c || 0
currentPrice(previousDay) ==
    LET bar == First(ResultsOf(previousDay)) IN
    OrZero(IF bar = UndefinedValue THEN UndefinedValue ELSE bar.c)

\* As previousClose, with 0 for an open that is missing.
previousCloseOrZero(previousDay) ==
    LET bar == First(ResultsOf(previousDay)) IN
    OrZero(IF bar = UndefinedValue THEN UndefinedValue ELSE bar.o)

\* previousDay?.results?.[0]?.o || currentPrice
previousClose(previousDay) ==
    LET bar == First(ResultsOf(previousDay)) IN
    NumberOr(IF bar = UndefinedValue THEN UndefinedValue ELSE bar.o, currentPrice(previousDay))

priceChange(previousDay) == Minus(currentPrice(previousDay), previousClose(previousDay))

\* ((x / y) * 100).toFixed(2), (x / y).toFixed(1): the quotient of two decimals
QuotientText(x, y, factor, d) ==
    IF x = NaN THEN NaNText
    ELSE LET e == IF x.e < y.e THEN x.e ELSE y.e IN
         QuotientToFixed(MantissaAt(x, e) * factor, MantissaAt(y, e), d)

priceChangePercent(previousDay) ==
    IF Positive(previousClose(previousDay))
    THEN QuotientText(priceChange(previousDay), previousClose(previousDay), 100, 2)
    ELSE <<"0", ".", "0", "0">>

\* latestFinancials?.financials?.income_statement?.basic_earnings_per_share?.value || 0
eps(financials) ==
    OrZero(StatementValue(First(ResultsOf(financials)), "basic_earnings_per_share"))

peRatio(financials, previousDay) ==
    IF Positive(eps(financials)) /\ Positive(currentPrice(previousDay))
    THEN QuotientText(currentPrice(previousDay), eps(financials), 1, 1)
    ELSE <<"N/A">>

\* As formatCurrency, without the branch for 1e12 (the earlier page).
formatCurrencyToBillions(value) ==
    IF AtLeastPow10(value, 9) THEN <<"$">> \o ToFixed(DivPow10(value, 9), 2) \o <<"B">>
    ELSE IF AtLeastPow10(value, 6) THEN <<"$">> \o ToFixed(DivPow10(value, 6), 2) \o <<"M">>
    ELSE <<"$">> \o ToLocaleString(value)

formatCurrency(value) ==
    IF AtLeastPow10(value, 12) THEN <<"$">> \o ToFixed(DivPow10(value, 12), 2) \o <<"T">>
    ELSE IF AtLeastPow10(value, 9) THEN <<"$">> \o ToFixed(DivPow10(value, 9), 2) \o <<"B">>
    ELSE IF AtLeastPow10(value, 6) THEN <<"$">> \o ToFixed(DivPow10(value, 6), 2) \o <<"M">>
    ELSE <<"$">> \o ToLocaleString(value)

\* As getGrowthColor, with the bands of the legend: yellow from 0, orange from -5.
getGrowthColorOfLegend(growth) ==
    IF AtLeast(growth, 15) THEN "#10B981"
    ELSE IF AtLeast(growth, 5) THEN "#3B82F6"
    ELSE IF AtLeast(growth, 0) THEN "#F59E0B"
    ELSE IF AtLeast(growth, -5) THEN "#F97316"
    ELSE "#EF4444"

getGrowthColor(growth) ==
    IF AtLeast(growth, 15) THEN "#10B981"
    ELSE IF AtLeast(growth, 5) THEN "#3B82F6"
    ELSE IF AtLeast(growth, -5) THEN "#F59E0B"
    ELSE IF AtLeast(growth, -5) THEN "#F97316"
    ELSE "#EF4444"

\* ------------------------------------------------------------------------
\* The derived metrics, applied to data the provider can deliver
\* ------------------------------------------------------------------------

\* Calls of one function on one argument in one run.
MaxCalls == 2

\* New years the clock of the browser passes in one run.
MaxYears == 1

\* FinancialData: a period the provider reports, fiscal_year a string (absent,
\* or empty, in a report that carries none).
Period(year, revenues, earnings, profit, income) ==
    [financials |->
        [income_statement |->
            [revenues |-> revenues, basic_earnings_per_share |-> earnings,
             gross_profit |-> profit, net_income_loss |-> income]],
     fiscal_year |-> year]

\* The latest period of a company: 0, $12.34B, $100B, $383.285B of revenue;
\* a field is { value: number, unit: string }, or undefined where absent.
LatestPeriods ==
    LET Field(values) == {UndefinedValue} \cup {[value |-> v] : v \in values} IN
    {Period(year, revenues, earnings, profit, income) :
        year \in {<<"2", "0", "2", "4">>, Undefined, <<>>},
        revenues \in Field({Num(0), Dec(1234, 7), Dec(1, 11), Dec(383285, 6)}),
        earnings \in Field({Dec(625, -2), Dec(-1, -1)}),
        profit \in Field({Dec(4, 10)}),
        income \in Field({Dec(25, 9)})}

\* The periods before it: a year of $90B of revenue and $20B of income, and
\* before it a report of a loss of $1B without fiscal year or revenue.
OlderPeriods ==
    <<Period(<<"2", "0", "2", "3">>, [value |-> Dec(9, 10)], UndefinedValue, UndefinedValue,
             [value |-> Dec(2, 10)]),
      Period(Undefined, UndefinedValue, UndefinedValue, UndefinedValue,
             [value |-> Dec(-1, 9)])>>

\* financials.results: newest first, at most three periods.
PeriodLists ==
    {<<>>} \cup {<<p>> \o SubSeq(OlderPeriods, 1, n) : p \in LatestPeriods, n \in 0..2}

\* The data of the financials query: undefined until it is fetched.
FinancialsData == {UndefinedValue} \cup {[results |-> l] : l \in PeriodLists \cup {UndefinedList}}

\* The data of the previous-day query: undefined, no bar, or one bar { c, o }
\* with each price absent, 0, $100, $148 or $150.25.
PreviousDayData ==
    LET Prices == {UndefinedValue, Num(0), Num(100), Num(148), Dec(15025, -2)} IN
    {UndefinedValue, [results |-> UndefinedList], [results |-> <<>>]}
    \cup {[results |-> <<[c |-> close, o |-> open]>>] : close \in Prices, open \in Prices}

\* Amounts of dollars around the thresholds of formatCurrency.
CurrencyValues ==
    {Num(0), Num(999), Num(1000), Dec(123456, -2), Dec(999999, 0), Dec(1, 6),
     Num(1234567), Dec(15, 8), Dec(999999, 3), Dec(1, 9), Dec(999999, 6), Dec(1, 12),
     Dec(23, 11), Dec(34567, 11), Num(-5), Dec(-2, 5)}

\* Revenues in billions of dollars.
SegmentRevenues ==
    {Num(0), Dec(8, -1), Dec(12, -1), Num(10), Dec(1234, -2), Num(100), Dec(3833, -1),
     Dec(383285, -3), Num(-10)}

\* Growth in percent.
GrowthValues ==
    {Num(20), Num(15), Dec(149, -1), Num(5), Dec(49, -1), Num(0), Dec(-1, -1), Num(-3),
     Num(-5), Dec(-51, -1), Num(-20), NaN}

\* The latest periods of the companies whose whole page is rendered: every
\* field reported, $12.34B or $100B of revenue.
RenderedPeriods ==
    {p \in LatestPeriods :
        /\ p.fiscal_year = <<"2", "0", "2", "4">>
        /\ \A name \in {"revenues", "basic_earnings_per_share", "gross_profit",
                         "net_income_loss"} :
              p.financials.income_statement[name] # UndefinedValue
        /\ p.financials.income_statement.revenues.value \in {Dec(1234, 7), Dec(1, 11)}
        /\ p.financials.income_statement.basic_earnings_per_share.value = Dec(625, -2)}

\* What a render computes: a function and its argument.  The earnings per
\* share and the price-to-earnings ratio are derived from one period and a
\* session that opened at $148.  A render of the whole page, StockResearchApp,
\* computes each of the values derived from the financials and the session.
Subjects ==
    LET Calls(fn, args) == {[fn |-> fn, arg |-> a] : a \in args}
        QuotedDays ==
            {d \in PreviousDayData :
                \/ d = UndefinedValue
                \/ First(ResultsOf(d)) # UndefinedValue
                    /\ First(ResultsOf(d)).o = Num(148)
                    /\ First(ResultsOf(d)).c \in {Num(0), Dec(15025, -2)}}
    IN Calls("formatCurrency", CurrencyValues)
       \cup Calls("revenueChartData", FinancialsData)
       \cup Calls("profitChartData", FinancialsData)
       \cup Calls("priceChange", PreviousDayData)
       \cup Calls("generateDCFData", PeriodLists \cup {UndefinedList})
       \cup Calls("generateDemoSegmentsData", SegmentRevenues)
       \cup Calls("segmentsData", FinancialsData)
       \cup Calls("peRatio",
                   {<<f, d>> : f \in {[results |-> <<p>>] : p \in LatestPeriods},
                               d \in QuotedDays})
       \cup Calls("getGrowthColor", GrowthValues)
       \cup Calls("StockResearchApp",
                   {<<[results |-> l], d>> :
                        l \in {r \in PeriodLists : r # <<>> /\ r[1] \in RenderedPeriods},
                        d \in {[results |-> <<[c |-> Dec(15025, -2), o |-> Num(148)]>>]}})

\* Whether the whole page is rendered.
Rendering == subject.fn = "StockResearchApp"

\* financials and previousDay, the data of the queries, in the subject.
financials == IF subject.fn \in {"StockResearchApp", "peRatio"} THEN subject.arg[1] ELSE subject.arg
previousDay == IF subject.fn \in {"StockResearchApp", "peRatio"} THEN subject.arg[2] ELSE subject.arg

\* The function returns: its result is kept, in the order of the calls; a
\* render of the whole page keeps it with the name of what was computed.
Return(name, result) ==
    /\ subject.fn \in {name, "StockResearchApp"}
    /\ Len(returned) < MaxCalls
    /\ returned' = Append(returned, IF Rendering THEN <<name, result>> ELSE result)
    /\ UNCHANGED clockYear
    /\ UNCHANGED <<serverVars, clientVars>>

\* The subject after the series were built from its financials.
SeriesBuilt ==
    subject' = IF Rendering
               THEN [subject EXCEPT !.arg[1] = financialsAfterSeries(@)]
               ELSE [subject EXCEPT !.arg = financialsAfterSeries(@)]

FormatCurrency ==
    /\ subject.fn = "formatCurrency"
    /\ Return("formatCurrency", formatCurrency(subject.arg))
    /\ UNCHANGED subject

RevenueChartData ==
    /\ Return("revenueChartData", revenueChartData(financials))
    /\ SeriesBuilt

ProfitChartData ==
    /\ Return("profitChartData", profitChartData(financials))
    /\ SeriesBuilt

\* currentPrice, previousClose, priceChange and priceChangePercent of a render
PriceChange ==
    /\ Return("priceChange",
              <<currentPrice(previousDay), previousClose(previousDay),
                priceChange(previousDay), priceChangePercent(previousDay)>>)
    /\ UNCHANGED subject

\* generateDCFData(financials?.results || []); new Date().getFullYear() is
\* the year of the clock at the call
GenerateDCFData ==
    /\ Return("generateDCFData",
              generateDCFData(IF Rendering THEN financials.results ELSE subject.arg,
                              clockYear))
    /\ UNCHANGED subject

GenerateDemoSegmentsData ==
    /\ subject.fn = "generateDemoSegmentsData"
    /\ Return("generateDemoSegmentsData", generateDemoSegmentsData(subject.arg))
    /\ UNCHANGED subject

SegmentsData ==
    /\ Return("segmentsData", segmentsData(financials))
    /\ UNCHANGED subject

\* eps and peRatio of a render
PeRatio ==
    /\ Return("peRatio", <<eps(financials), peRatio(financials, previousDay)>>)
    /\ UNCHANGED subject

GetGrowthColor ==
    /\ subject.fn = "getGrowthColor"
    /\ Return("getGrowthColor", getGrowthColor(subject.arg))
    /\ UNCHANGED subject

\* The clock of the browser passes midnight of December 31st.
NewYear ==
    /\ clockYear < FirstYear + MaxYears
    /\ clockYear' = clockYear + 1
    /\ UNCHANGED <<subject, returned>>
    /\ UNCHANGED <<serverVars, clientVars>>

\* The proxy serves and the page is not open: only the functions run.
MetricsInit ==
    /\ apiKey = <<"k", "1">>
    /\ variant = "header"
    /\ startup = "serving"
    /\ routes = Ops
    /\ httpServer = TRUE
    /\ conn = [c \in Conns |-> Idle]
    /\ nArrived = 0
    /\ nValidated = 0
    /\ nUpstream = 0
    /\ ClientAtRest
    /\ subject \in Subjects
    /\ clockYear = FirstYear
    /\ returned = <<>>

MetricsNext ==
    \/ FormatCurrency
    \/ RevenueChartData
    \/ ProfitChartData
    \/ PriceChange
    \/ GenerateDCFData
    \/ GenerateDemoSegmentsData
    \/ SegmentsData
    \/ PeRatio
    \/ GetGrowthColor
    \/ NewYear

MetricsSpec == MetricsInit /\ [][MetricsNext]_vars

\* ------------------------------------------------------------------------
\* Claims about the derived metrics
\* ------------------------------------------------------------------------

\* The periods the projection is made from, where the subject is a projection.
ProjectedPeriods ==
    IF subject.fn = "generateDCFData" /\ subject.arg # UndefinedList THEN subject.arg
    ELSE <<>>

\* The projection counts its years from the clock: the latest period carries
\* no fiscal year.
ReadsClock == ProjectedPeriods # <<>> /\ Falsy(ProjectedPeriods[1].fiscal_year)

\* Calls i and j are of one function: in a render of the whole page, the
\* results kept carry the same name.
SameFunction(i, j) == Rendering => returned[i][1] = returned[j][1]

RECURSIVE BigLess(_, _)
BigLess(a, b) ==
    IF Len(a) # Len(b) THEN Len(a) < Len(b)
    ELSE IF a = <<>> THEN FALSE
    ELSE IF a[Len(a)] # b[Len(b)] THEN a[Len(a)] < b[Len(b)]
    ELSE BigLess(SubSeq(a, 1, Len(a) - 1), SubSeq(b, 1, Len(b) - 1))

\* The revenue of the latest projected period in dollars, 0 when it has none.
LatestRevenue ==
    LET field == ProjectedPeriods[1].financials.income_statement.revenues IN
    IF field = UndefinedValue THEN Num(0) ELSE field.value

\* R * 1.05^n * 0.15 and R * 1.05^n * 0.15 * 0.97^n, R the latest revenue in
\* billions: the digits of the product, and the count of its decimals.
ExactFcf(n) ==
    <<BigTimes(BigTimesPow(BigOf(LatestRevenue.m), 105, n), 15, 0),
      9 + 2 * n + 2 - LatestRevenue.e>>
ExactDcf(n) == <<BigTimesPow(ExactFcf(n)[1], 97, n), ExactFcf(n)[2] + 2 * n>>

\* The number v is an integer >= 0.
IsNatural(v) == v # NaN /\ v.e >= 0 /\ v.m >= 0

\* The natural number v is the exact value x.
ExactlyIs(v, x) == BigTimesPow(BigOf(v.m), 10, v.e + x[2]) = x[1]

\* The natural number v is the integer nearest to the exact value x:
\* v - 1/2 <= x < v + 1/2.
NearestIs(v, x) ==
    LET f == v.m * Pow10(v.e)
        twice == BigTimes(x[1], 2, 0)
    IN /\ f = 0 \/ ~BigLess(twice, BigTimesPow(BigOf(2 * f - 1), 10, x[2]))
       /\ BigLess(twice, BigTimesPow(BigOf(2 * f + 1), 10, x[2]))

\* C14 (as stated): every projection from a list that is not empty has, for
\* each n in 1..5, fcf = R * 1.05^n * 0.15 and dcf = fcf * 0.97^n, exactly.
C14_ExactFormula ==
    ProjectedPeriods # <<>> =>
        \A k \in 1..Len(returned) : \A n \in 1..ProjectionYears :
            /\ IsNatural(returned[k][n].fcf)
            /\ ExactlyIs(returned[k][n].fcf, ExactFcf(n))
            /\ IsNatural(returned[k][n].dcf)
            /\ ExactlyIs(returned[k][n].dcf, ExactDcf(n))

\* C14: every projection from a list that is not empty has, for each n in
\* 1..5, fcf the integer nearest to R * 1.05^n * 0.15 and dcf the integer
\* nearest to R * 1.05^n * 0.15 * 0.97^n (the discount is applied to the
\* cash flow before it is rounded).
C14_RoundedFormula ==
    ProjectedPeriods # <<>> =>
        \A k \in 1..Len(returned) : \A n \in 1..ProjectionYears :
            /\ IsNatural(returned[k][n].fcf)
            /\ NearestIs(returned[k][n].fcf, ExactFcf(n))
            /\ IsNatural(returned[k][n].dcf)
            /\ NearestIs(returned[k][n].dcf, ExactDcf(n))

\* The projection from a latest period of $100B of revenue: fcf 16, 17, 17,
\* 18, 19 and dcf 15, 16, 16, 16, 16.
C14_Witness ==
    /\ ProjectedPeriods # <<>>
    /\ LatestRevenue = Dec(1, 11)
    /\ returned # <<>>
    /\ [n \in 1..ProjectionYears |-> returned[1][n].fcf]
         = <<Num(16), Num(17), Num(17), Num(18), Num(19)>>
    /\ [n \in 1..ProjectionYears |-> returned[1][n].dcf]
         = <<Num(15), Num(16), Num(16), Num(16), Num(16)>>

\* C15: a projection from an empty or absent list is empty; a projection
\* from any other list has exactly 5 entries, the year of each the decimal
\* text of the year before it plus one, and the first that of Y + 1 for Y
\* the fiscal year of the latest period ("2025".."2029" for "2024").
C15_FiveConsecutiveYears ==
    subject.fn = "generateDCFData" =>
        \A k \in 1..Len(returned) :
            IF subject.arg = <<>> \/ subject.arg = UndefinedList THEN returned[k] = <<>>
            ELSE /\ Len(returned[k]) = 5
                 /\ \A n \in 1..4 :
                       Minus(ParseInt(returned[k][n + 1].year),
                             ParseInt(returned[k][n].year)) = Num(1)
                 /\ ~ReadsClock =>
                       Minus(ParseInt(returned[k][1].year),
                             ParseInt(subject.arg[1].fiscal_year)) = Num(1)
                 /\ subject.arg[1].fiscal_year = <<"2", "0", "2", "4">> =>
                       [n \in 1..5 |-> returned[k][n].year]
                         = <<<<"2", "0", "2", "5">>, <<"2", "0", "2", "6">>,
                             <<"2", "0", "2", "7">>, <<"2", "0", "2", "8">>,
                             <<"2", "0", "2", "9">>>>

\* A list of three periods, the latest of fiscal year 2024, was projected.
C15_Witness ==
    /\ subject.fn = "generateDCFData"
    /\ subject.arg # UndefinedList
    /\ Len(subject.arg) = 3
    /\ subject.arg[1].fiscal_year = <<"2", "0", "2", "4">>
    /\ returned # <<>>
    /\ Len(returned[1]) = 5
    /\ returned[1][5].year = <<"2", "0", "2", "9">>

\* C16: formatCurrency(value) is "$", then value / 1e12 with two decimals
\* and "T" for value >= 1e12, value / 1e9 with two decimals and "B" for
\* 1e9 <= value < 1e12, value / 1e6 with two decimals and "M" for
\* 1e6 <= value < 1e9, and else the number grouped by the locale; 1.5e9 gives
\* "$1.50B", 2.3e12 "$2.30T" and 999 "$999".
C16_FormatCurrency ==
    subject.fn = "formatCurrency" =>
        \A k \in 1..Len(returned) :
            LET value == subject.arg
                text == returned[k]
            IN /\ AtLeastPow10(value, 12)
                    => text = <<"$">> \o ToFixed(DivPow10(value, 12), 2) \o <<"T">>
               /\ AtLeastPow10(value, 9) /\ ~AtLeastPow10(value, 12)
                    => text = <<"$">> \o ToFixed(DivPow10(value, 9), 2) \o <<"B">>
               /\ AtLeastPow10(value, 6) /\ ~AtLeastPow10(value, 9)
                    => text = <<"$">> \o ToFixed(DivPow10(value, 6), 2) \o <<"M">>
               /\ ~AtLeastPow10(value, 6) => text = <<"$">> \o ToLocaleString(value)
               /\ value = Dec(15, 8) => text = <<"$", "1", ".", "5", "0", "B">>
               /\ value = Dec(23, 11) => text = <<"$", "2", ".", "3", "0", "T">>
               /\ value = Num(999) => text = <<"$", "9", "9", "9">>
               /\ value = Dec(1, 12) => text = <<"$", "1", ".", "0", "0", "T">>
               /\ value = Dec(1, 9) => text = <<"$", "1", ".", "0", "0", "B">>
               /\ value = Dec(1, 6) => text = <<"$", "1", ".", "0", "0", "M">>
               /\ value = Dec(999999, 0)
                    => text = <<"$", "9", "9", "9", ",", "9", "9", "9">>
               /\ value = Dec(123456, -2)
                    => text = <<"$", "1", ",", "2", "3", "4", ".", "5", "6">>

\* 2.3e12 dollars were formatted.
C16_Witness ==
    /\ subject = [fn |-> "formatCurrency", arg |-> Dec(23, 11)]
    /\ returned # <<>>
    /\ returned[1] = <<"$", "2", ".", "3", "0", "T">>

\* The amount of a reported field in billions, 0 for a field that is absent.
InBillions(field) ==
    IF field = UndefinedValue THEN Dec(0, 0) ELSE Norm(Dec(field.value.m, field.value.e - 9))

\* C17: the revenue series and the profit series of N periods, newest first,
\* have N points, oldest first: point i carries the fiscal_year of period
\* N + 1 - i and its revenue (its net income) divided by 1e9, 0 where the
\* period reports none; $100B of revenue gives 100 and $25B of income 25.
C17_SeriesReversedInBillions ==
    (subject.fn \in {"revenueChartData", "profitChartData"}
        /\ ResultsOf(subject.arg) # UndefinedList) =>
        LET periods == subject.arg.results
            N == Len(periods)
        IN \A k \in 1..Len(returned) :
            /\ Len(returned[k]) = N
            /\ \A i \in 1..N :
                LET statement == periods[N + 1 - i].financials.income_statement IN
                /\ returned[k][i].year = periods[N + 1 - i].fiscal_year
                /\ subject.fn = "revenueChartData" =>
                    /\ returned[k][i].revenue = InBillions(statement.revenues)
                    /\ statement.revenues = [value |-> Dec(1, 11)]
                          => returned[k][i].revenue = Dec(1, 2)
                /\ subject.fn = "profitChartData" =>
                    /\ returned[k][i].netIncome = InBillions(statement.net_income_loss)
                    /\ statement.net_income_loss = [value |-> Dec(25, 9)]
                          => returned[k][i].netIncome = Dec(25, 0)

\* The revenue series of three periods was built: the oldest, which reports
\* no revenue, comes first with 0 and the latest, of 2024, last with 100.
C17_Witness ==
    /\ subject.fn = "revenueChartData"
    /\ ResultsOf(subject.arg) # UndefinedList
    /\ Len(subject.arg.results) = 3
    /\ returned # <<>>
    /\ returned[1][1] = [year |-> Undefined, revenue |-> Dec(0, 0)]
    /\ returned[1][2] = [year |-> <<"2", "0", "2", "3">>, revenue |-> Dec(9, 1)]
    /\ returned[1][3] = [year |-> <<"2", "0", "2", "4">>, revenue |-> Dec(1, 2)]

\* v = share * R rounded to one decimal: 10 v is an integer with
\* 10 v - 1/2 <= 10 * share * R < 10 v + 1/2, share in hundredths.
RoundedShare(v, hundredths, R) ==
    /\ v # NaN
    /\ v.e >= -1
    /\ LET tenths == v.m * Pow10(v.e + 1)
           e == IF R.e < 0 THEN R.e ELSE 0
           scale == Pow10(-e)
           product == R.m * Pow10(R.e - e) * hundredths
       IN /\ (2 * tenths - 1) * scale * 10 <= 2 * product
          /\ 2 * product < (2 * tenths + 1) * scale * 10

\* C18: generateDemoSegmentsData(0) is empty; for any other revenue R it
\* has three entries, Products, Services and Other in that order, their
\* values 0.55 R, 0.30 R and 0.15 R rounded to one decimal and their
\* growth 5.2, 8.5 and 3.1; for R = 10 the values add up to 10.
C18_SegmentsSplit ==
    subject.fn = "generateDemoSegmentsData" =>
        \A k \in 1..Len(returned) :
            LET R == subject.arg
                segments == returned[k]
            IN IF R = Dec(0, 0) THEN segments = <<>>
               ELSE /\ Len(segments) = 3
                    /\ [i \in 1..3 |-> segments[i].name] = <<"Products", "Services", "Other">>
                    /\ [i \in 1..3 |-> segments[i].growth]
                         = <<Dec(52, -1), Dec(85, -1), Dec(31, -1)>>
                    /\ RoundedShare(segments[1].value, 55, R)
                    /\ RoundedShare(segments[2].value, 30, R)
                    /\ RoundedShare(segments[3].value, 15, R)
                    /\ R = Dec(1, 1) =>
                         /\ [i \in 1..3 |-> segments[i].value]
                              = <<Dec(55, -1), Dec(3, 0), Dec(15, -1)>>
                         /\ Minus(Minus(Minus(R, segments[1].value), segments[2].value),
                                  segments[3].value) = Dec(0, 0)

\* The segments of a revenue of 10 (billions) were made.
C18_Witness ==
    /\ subject = [fn |-> "generateDemoSegmentsData", arg |-> Dec(1, 1)]
    /\ returned # <<>>
    /\ Len(returned[1]) = 3
    /\ returned[1][1].value = Dec(55, -1)

\* The bar of the previous session, where the subject is the price change
\* of a snapshot.
Snapshot ==
    IF subject.fn = "priceChange" THEN First(ResultsOf(subject.arg)) ELSE UndefinedValue

\* A price that is absent counts as 0.
PriceOrZero(price) == IF price = UndefinedValue THEN Dec(0, 0) ELSE price

\* C19 (as stated): for every snapshot, the current price is its close, the
\* previous close is its open, also an open of 0, the change is their
\* difference, and the percent is change / previous * 100 with two decimals
\* where previous > 0 and "0.00" where not.
C19_PreviousIsOpen ==
    Snapshot # UndefinedValue =>
        \A k \in 1..Len(returned) :
            LET current == PriceOrZero(Snapshot.c)
                previous == PriceOrZero(Snapshot.o)
            IN /\ returned[k][1] = current
               /\ Snapshot.o # UndefinedValue =>
                    /\ returned[k][2] = previous
                    /\ returned[k][3] = Minus(current, previous)
               /\ returned[k][4] =
                    IF previous.m > 0
                    THEN QuotientText(Minus(current, previous), previous, 100, 2)
                    ELSE <<"0", ".", "0", "0">>

\* C19: for every snapshot, the current price is its close (0 without one),
\* the previous close is its open, or the current price where the open is 0
\* or absent, the change is their difference, and the percent is
\* change / previous * 100 with two decimals where previous > 0 and "0.00"
\* where not.
C19_PreviousIsOpenOrCurrent ==
    Snapshot # UndefinedValue =>
        \A k \in 1..Len(returned) :
            LET current == PriceOrZero(Snapshot.c)
                previous == IF PriceOrZero(Snapshot.o) = Dec(0, 0) THEN current
                            ELSE Snapshot.o
            IN /\ returned[k][1] = current
               /\ returned[k][2] = previous
               /\ returned[k][3] = Minus(current, previous)
               /\ returned[k][4] =
                    IF previous.m > 0
                    THEN QuotientText(Minus(current, previous), previous, 100, 2)
                    ELSE <<"0", ".", "0", "0">>
               /\ (Snapshot.c = Dec(15025, -2) /\ Snapshot.o = Dec(148, 0))
                    => /\ returned[k][3] = Dec(225, -2)
                       /\ returned[k][4] = <<"1", ".", "5", "2">>
               /\ (Snapshot.c = Dec(148, 0) /\ Snapshot.o = Dec(15025, -2))
                    => /\ returned[k][3] = Dec(-225, -2)
                       /\ returned[k][4] = <<"-", "1", ".", "5", "0">>

\* The price change of a snapshot that closed at $100 and has an open of 0
\* was computed: the previous close is $100 and the change 0.
C19_Witness ==
    /\ Snapshot # UndefinedValue
    /\ Snapshot.c = Dec(1, 2)
    /\ Snapshot.o = Dec(0, 0)
    /\ returned # <<>>
    /\ returned[1] = <<Dec(1, 2), Dec(1, 2), Dec(0, 0), <<"0", ".", "0", "0">>>>

\* The period with 0 reported for each income-statement field it lacks.
ZeroFilled(period) ==
    LET statement == period.financials.income_statement
        Filled(field) == IF field = UndefinedValue THEN [value |-> Dec(0, 0)] ELSE field
    IN Period(period.fiscal_year, Filled(statement.revenues),
              Filled(statement.basic_earnings_per_share), Filled(statement.gross_profit),
              Filled(statement.net_income_loss))

\* The financials with every period zero-filled.
ZeroFilledData(data) ==
    IF ResultsOf(data) = UndefinedList THEN data
    ELSE [results |-> [i \in 1..Len(data.results) |-> ZeroFilled(data.results[i])]]

\* C20: whichever income-statement fields the periods lack, the revenue
\* series, the profit series, the projection, the segments, the earnings per
\* share and the price-to-earnings ratio come out as they do with 0 reported
\* in place of each absent field, and no value among them is NaN or undefined.
C20_AbsentFieldsAreZero ==
    \A k \in 1..Len(returned) :
        /\ subject.fn = "revenueChartData" =>
            /\ returned[k] = revenueChartData(ZeroFilledData(subject.arg))
            /\ ResultsOf(subject.arg) # UndefinedList =>
                  \A i \in 1..Len(returned[k]) :
                      returned[k][i].revenue \notin {NaN, UndefinedValue}
        /\ subject.fn = "profitChartData" =>
            /\ returned[k] = profitChartData(ZeroFilledData(subject.arg))
            /\ ResultsOf(subject.arg) # UndefinedList =>
                  \A i \in 1..Len(returned[k]) :
                      returned[k][i].netIncome \notin {NaN, UndefinedValue}
        /\ (subject.fn = "generateDCFData" /\ ProjectedPeriods # <<>>) =>
            /\ ~ReadsClock =>
                  returned[k] = generateDCFData(
                      [i \in 1..Len(subject.arg) |-> ZeroFilled(subject.arg[i])], FirstYear)
            /\ \A n \in 1..Len(returned[k]) :
                  /\ returned[k][n].fcf \notin {NaN, UndefinedValue}
                  /\ returned[k][n].dcf \notin {NaN, UndefinedValue}
            /\ subject.arg[1].financials.income_statement.revenues = UndefinedValue =>
                  \A n \in 1..Len(returned[k]) :
                      returned[k][n].fcf = Dec(0, 0) /\ returned[k][n].dcf = Dec(0, 0)
        /\ subject.fn = "segmentsData" =>
            /\ returned[k] = segmentsData(ZeroFilledData(subject.arg))
            /\ \A i \in 1..Len(returned[k]) :
                  returned[k][i].value \notin {NaN, UndefinedValue}
        /\ subject.fn = "peRatio" =>
            /\ returned[k][1] = eps(ZeroFilledData(subject.arg[1]))
            /\ returned[k][2] = peRatio(ZeroFilledData(subject.arg[1]), subject.arg[2])
            /\ returned[k][1] \notin {NaN, UndefinedValue}
            /\ returned[k][2] # NaNText
            /\ First(subject.arg[1].results).financials.income_statement
                    .basic_earnings_per_share = UndefinedValue
                  => returned[k] = <<Dec(0, 0), <<"N/A">>>>

\* The projection from a latest period that reports no income-statement
\* field at all was made: five entries of 0.
C20_Witness ==
    /\ subject.fn = "generateDCFData"
    /\ ProjectedPeriods # <<>>
    /\ \A name \in {"revenues", "net_income_loss", "gross_profit",
                    "basic_earnings_per_share"} :
          subject.arg[1].financials.income_statement[name] = UndefinedValue
    /\ returned # <<>>
    /\ Len(returned[1]) = 5
    /\ \A n \in 1..5 : returned[1][n].fcf = Dec(0, 0)

\* The growth in tenths of a percent.
Tenths(growth) == MantissaAt(growth, -1)

C24_ColourOfLegend ==
    (subject.fn = "getGrowthColor" /\ subject.arg # NaN) =>
        \A k \in 1..Len(returned) :
            /\ Tenths(subject.arg) >= 150 => returned[k] = "#10B981"
            /\ (50 <= Tenths(subject.arg) /\ Tenths(subject.arg) < 150) =>
                  returned[k] = "#3B82F6"
            /\ (0 <= Tenths(subject.arg) /\ Tenths(subject.arg) < 50) =>
                  returned[k] = "#F59E0B"
            /\ (-50 <= Tenths(subject.arg) /\ Tenths(subject.arg) < 0) =>
                  returned[k] = "#F97316"
            /\ Tenths(subject.arg) < -50 => returned[k] = "#EF4444"

\* What the stock page shows from the query of a kind.
SectionOf(kind) ==
    IF kind = "details" THEN {HeaderName, HeaderIndustry, AboutText}
    ELSE IF kind = "previous" THEN {HeaderPrice, StockPriceCard}
    ELSE {ChartContent}

\* Nothing, or a text that says that the data is loading or not available.
Withheld == {<<>>, <<"Loading...">>, <<"N/A">>}

\* C22: while the fetch of a kind has failed for the selected ticker, the
\* page shows nothing from that query: no name, description, price or chart
\* content, and none of another company.
C22_FailureWithholdsSection ==
    \A kind \in Kinds :
        (selectedTicker \in Symbols /\ QueryData(kind).status = "error") =>
            \A shown \in SectionOf(kind) : shown \in Withheld

\* The subject is the segments of a positive revenue written to one decimal.
OneDecimalRevenue ==
    /\ subject.fn = "generateDemoSegmentsData"
    /\ subject.arg # NaN
    /\ subject.arg.m > 0
    /\ subject.arg.e >= -1

\* The sum of the values of the segments, in tenths of a billion.
SumInTenths(segments) ==
    Tenths(segments[1].value) + Tenths(segments[2].value) + Tenths(segments[3].value)

\* C23, as stated: the three values made from a positive revenue R of one
\* decimal add up to exactly R.
C23_SegmentsSumToRevenue ==
    OneDecimalRevenue =>
        \A k \in 1..Len(returned) :
            /\ Len(returned[k]) = 3
            /\ SumInTenths(returned[k]) = Tenths(subject.arg)

\* C23, amended: the three values made from a positive revenue R of one
\* decimal add up to R, to R - 0.1 or to R + 0.1, and to exactly 10 for R = 10.
C23_SegmentsSumWithinATenth ==
    OneDecimalRevenue =>
        \A k \in 1..Len(returned) :
            /\ Len(returned[k]) = 3
            /\ SumInTenths(returned[k]) - Tenths(subject.arg) \in {-1, 0, 1}
            /\ subject.arg = Dec(1, 1) => SumInTenths(returned[k]) = 100

\* The segments of a revenue of 0.8 (billions) were made: 0.4, 0.2 and 0.1.
C23_Witness ==
    /\ OneDecimalRevenue
    /\ subject.arg = Dec(8, -1)
    /\ returned # <<>>
    /\ [i \in 1..3 |-> returned[1][i].value] = <<Dec(4, -1), Dec(2, -1), Dec(1, -1)>>

\* The fiscal year of a period as a number, 0 for a period that carries none.
YearOf(period) ==
    IF ParseInt(period.fiscal_year) = NaN THEN 0 ELSE MathRound(ParseInt(period.fiscal_year))

NewestFirst(results) ==
    \A i \in 1..(Len(results) - 1) : YearOf(results[i]) >= YearOf(results[i + 1])

\* The income statement of the period of the greatest fiscal year.
LatestStatement(results) ==
    LET latest == CHOOSE p \in {results[i] : i \in 1..Len(results)} :
                      \A i \in 1..Len(results) : YearOf(p) >= YearOf(results[i])
    IN latest.financials.income_statement

\* The step builds the revenue or the profit series.
BuildsSeries ==
    /\ Len(returned') > Len(returned)
    /\ \/ subject.fn \in {"revenueChartData", "profitChartData"}
       \/ Rendering /\ returned'[Len(returned')][1] \in {"revenueChartData", "profitChartData"}

\* C25: a step that builds the revenue or the profit series leaves the
\* financials as they were; in a render of the whole page, whichever series
\* were built before, financials.results is newest first, and the projection,
\* the segments and the earnings per share are those of the latest period.
C25_SeriesLeaveFinancials ==
    /\ [][BuildsSeries => subject' = subject]_vars
    /\ [](Rendering =>
            /\ NewestFirst(financials.results)
            /\ \A k \in 1..Len(returned) :
                  /\ returned[k][1] = "generateDCFData" =>
                        /\ Len(returned[k][2]) = ProjectionYears
                        /\ returned[k][2][1].fcf =
                              ProjectedFcf(
                                  Billions(LatestStatement(financials.results).revenues.value), 1)
                  /\ returned[k][1] = "segmentsData" =>
                        returned[k][2] =
                            generateDemoSegmentsData(
                                Billions(LatestStatement(financials.results).revenues.value))
                  /\ returned[k][1] = "peRatio" =>
                        returned[k][2][1] =
                            LatestStatement(financials.results).basic_earnings_per_share.value)

\* In a render of a company with three periods, $100B of revenue in the
\* latest, the revenue series was built and then the projection was made.
C25_Witness ==
    /\ Rendering
    /\ Len(financials.results) = 3
    /\ Len(returned) = 2
    /\ returned[1][1] = "revenueChartData"
    /\ returned[1][2][3].revenue = Dec(1, 2)
    /\ returned[2][1] = "generateDCFData"
    /\ returned[2][2][1].fcf = Dec(16, 0)

\* The fetches a step starts.
FetchesStarted == inflight' \ inflight

\* C26: a search fetch is started only for the debounced query, of at least
\* 2 characters, and a details, previous-session or financials fetch only for
\* the ticker that is selected; no fetch in flight asks the proxy for a
\* search with an empty q or for a ticker that is none.
C26_RequestsOnlyWhenEnabled ==
    /\ [][\A f \in FetchesStarted :
             IF f.kind = "search"
             THEN f.key = debouncedQuery' /\ Len(f.key) >= 2
             ELSE f.key = selectedTicker' /\ selectedTicker' \in Symbols]_vars
    /\ [](\A f \in inflight :
             /\ f.url = f.key
             /\ IF f.kind = "search" THEN Len(f.url) >= 2 ELSE f.url \in Symbols)

\* A stock is selected and its three fetches are in flight; the debounce
\* timer has then fired with the emptied input, and no search fetch is made
\* for the empty text.
C26_Witness ==
    /\ selectedTicker = <<"X">>
    /\ \A k \in Kinds : StockFetch(<<"X">>, k) \in inflight
    /\ searchQuery = <<>>
    /\ debouncedQuery = <<>>
    /\ timers = {}
    /\ \A q \in SearchInputs : SearchFetch(q) \notin inflight

\* C27: the step that selects a stock sets selectedTicker to a ticker of the
\* results shown and empties searchQuery; "Back to Search" changes nothing
\* but selectedTicker; while debouncedQuery is empty no search fetch is
\* started and no search results are shown; and once the input is empty,
\* debouncedQuery becomes empty unless the user types.
C27_SelectClearsSearch ==
    /\ [][/\ (selectedTicker = Null /\ selectedTicker' # Null) =>
               (/\ selectedTicker' \in searchResults.results
                /\ searchQuery' = <<>>)
          /\ (selectedTicker # Null /\ selectedTicker' # selectedTicker) =>
               (/\ selectedTicker' = Null
                /\ UNCHANGED <<searchQuery, debouncedQuery, timers, searchCache, cache,
                               inflight>>)
          /\ debouncedQuery' = <<>> =>
               (\A f \in inflight' \ inflight : f.kind # "search")]_vars
    /\ [](debouncedQuery = <<>> =>
            (searchResults.status = "none" /\ searchResults.results = {}))
    /\ (searchQuery = <<>>) ~> (debouncedQuery = <<>> \/ searchQuery # <<>>)

\* The user searched for "ab", selected X and came back to the search view
\* after the timer had fired: the input and the debounced query are empty,
\* and the results of "ab" are still in the cache.
C27_Witness ==
    /\ nSelected = 1
    /\ selectedTicker = Null
    /\ searchQuery = <<>>
    /\ debouncedQuery = <<>>
    /\ timers = {}
    /\ searchCache[<<"a", "b">>].status = "success"
    /\ searchCache[<<"a", "b">>].results = Symbols
    /\ cache[<<<<"X">>, "details">>].status = "success"

\* C28: a request gets one response: 400 if its parameters are rejected,
\* else 200 if the upstream call succeeded and 500 if it failed; a response
\* is written only for a request that has none, and the handler does nothing
\* after it; with every upstream call settling, every request is answered.
C28_OneResponsePerRequest ==
    /\ [](\A c \in Conns :
             Answered(c) =>
                /\ conn[c].resp.status \in {400, 200, 500}
                /\ conn[c].resp.status = 400 <=> Rejected(conn[c].req)
                /\ conn[c].resp.status = 200 <=>
                      (/\ conn[c].reply.settled = "responded"
                       /\ conn[c].reply.ok
                       /\ conn[c].reply.readable
                       /\ JSONParse(conn[c].reply.body).ok))
    /\ [][\A c \in Conns :
             /\ (conn'[c].resp # conn[c].resp /\ conn'[c].resp # NoResp) =>
                    (conn[c].resp = NoResp /\ Answered(c)')
             /\ (Answered(c) /\ conn'[c] # conn[c]) => conn'[c] = Idle]_vars
    /\ \A c \in Conns : Handled(c) ~> Answered(c)

\* The second request of a run was answered 500 on a failed upstream call
\* while another request waits for its upstream reply.
C28_Witness ==
    /\ nArrived = 2
    /\ Answered("c1")
    /\ conn["c1"].resp.status = 500
    /\ conn["c1"].reply.settled = "responded"
    /\ conn["c2"].pc = "awaitFetch"

\* The projections returned: those of the calls of generateDCFData on a list
\* that is not empty, and those made in a render of the whole page.
Projections ==
    IF ProjectedPeriods # <<>> THEN {returned[k] : k \in 1..Len(returned)}
    ELSE IF Rendering
    THEN {returned[k][2] : k \in {i \in 1..Len(returned) : returned[i][1] = "generateDCFData"}}
    ELSE {}

\* The latest revenue of the projected list is not negative.
RevenueNotNegative ==
    LET field == (IF Rendering THEN financials.results ELSE ProjectedPeriods)[1]
                    .financials.income_statement.revenues
    IN field = UndefinedValue \/ field.value.m >= 0

\* C29: a projection from a list that is not empty, its latest revenue not
\* negative, has five entries, in each of them dcf <= fcf, and fcf does not
\* decrease from one year to the next.
C29_DiscountedBelowGrowing ==
    \A projection \in Projections :
        RevenueNotNegative =>
            /\ Len(projection) = ProjectionYears
            /\ \A n \in 1..ProjectionYears :
                  /\ IsNatural(projection[n].fcf)
                  /\ IsNatural(projection[n].dcf)
                  /\ MathRound(projection[n].dcf) <= MathRound(projection[n].fcf)
            /\ \A n \in 1..(ProjectionYears - 1) :
                  MathRound(projection[n].fcf) <= MathRound(projection[n + 1].fcf)

\* The projection from a latest period of $383.285B of revenue, the list
\* three periods long: fcf grows from 60 to 73 and dcf stays below it.
C29_Witness ==
    /\ ProjectedPeriods # <<>>
    /\ Len(ProjectedPeriods) = 3
    /\ LatestRevenue = Dec(383285, 6)
    /\ returned # <<>>
    /\ [n \in 1..5 |-> returned[1][n].fcf] = <<Num(60), Num(63), Num(67), Num(70), Num(73)>>
    /\ \A n \in 1..5 : MathRound(returned[1][n].dcf) < MathRound(returned[1][n].fcf)

====
